---- MODULE Spec2Model ----
(***************************************************************************)
(* Job lifecycle of the cc-backend REST API: start_job with its duplicate  *)
(* window under RepositoryMutex, stop_job with the synchronous persist,    *)
(* the response and the detached archiving goroutine counted by            *)
(* OngoingArchivings.                                                      *)
(*                                                                         *)
(* Every HTTP request is a process r \in Requests that runs one handler    *)
(* once; pc[r] is its position in the handler.  Store calls are atomic,    *)
(* the steps between two store calls of one handler interleave freely with *)
(* the other requests and with the archiving goroutines.                   *)
(*                                                                         *)
(* Times are epoch seconds.  TLC's integers are 32 bits wide, so the       *)
(* int64 times of the program are drawn from [-2^31, 2^31-1] and every     *)
(* difference the model evaluates is either in range or computed by        *)
(* Int32Sub, which wraps as Go's int32() conversion does.                  *)
(***************************************************************************)
EXTENDS Integers, Sequences, FiniteSets, Bags, TLC

\* ------------------------------------------------------------------ bounds
NumRequests == 2            \* HTTP requests in one behaviour

Requests == 1..NumRequests

\* --------------------------------------------------------------- constants
DuplicateWindow == 86400    \* seconds, startJob's duplicate window
MaxInt32 == 2147483647      \* largest value of the int32 duration field

StatusOK == 200
StatusCreated == 201
StatusBadRequest == 400
StatusForbidden == 403
StatusNotFound == 404
StatusUnprocessableEntity == 422
StatusInternalServerError == 500

RoleApi == "api"

JobStateRunning == "running"
JobStateCompleted == "completed"

MonitoringStatusDisabled == "disabled"
MonitoringStatusRunningOrArchiving == "pending"
MonitoringStatusArchivingFailed == "archiving-failed"
MonitoringStatusArchivingSuccessful == "archiving-successful"

\* ------------------------------------------------------------------ inputs
JobIds == {123000, 123001}
Clusters == {"fritz"}
StartTimes == {0 - 86400, 0, 88}
StopTimes == {0, 3600, MaxInt32}
StartMonitoring == {MonitoringStatusDisabled, MonitoringStatusRunningOrArchiving}
StopStates == {"", "failed", "running", "bogus"}
\* The bodies of the stop requests: every stop time with the default state and
\* every state with one stop time.
StopBodies == {b \in StopTimes \X StopStates : b[1] = 3600 \/ b[2] = ""}
\* The states a start request names: none, or a state other than running.
StartStates == {"", "failed"}
\* Tags are (type, name) pairs; the tag lists of the start and tag requests.
TagNames == {<<"bench", "a">>, <<"bench", "b">>}
TagLists == {<< >>, <<<<"bench", "a">>>>, <<<<"bench", "a">>, <<"bench", "b">>>>}
TagJobLists == TagLists \cup {<<<<"bench", "b">>>>}

\* --------------------------------------------------------------- the state
VARIABLES
    jobs,      \* job table: database id -> row, DOMAIN jobs = the rows stored
    lastId,    \* last database id handed out by the job table
    mutex,     \* RepositoryMutex: 0 when free, else the request holding it
    ongoing,   \* OngoingArchivings: the wait group's counter
    pc,        \* pc[r]: position of request r in its handler
    req,       \* req[r]: the decoded request
    job,       \* job[r]: the handler's local *schema.Job (stop) or new id (start)
    resp,      \* resp[r]: the bodies written to r's ResponseWriter, in order
    trace,     \* trace[r]: the store writes, response and dispatch of r, in order
    arch,      \* arch[r]: position of the archiving goroutine dispatched by r
    tag,       \* tag table: tag id -> (type, name)
    jobtag,    \* jobtag table: the bag of its (job id, tag id) rows
    archive,   \* archive copies: job id -> the tag ids in the archived job's record
    frame      \* frame[r]: the locals of r's running AddTagOrCreate call

tagVars == <<tag, jobtag, archive, frame>>

vars == <<jobs, lastId, mutex, ongoing, pc, req, job, resp, trace, arch, tagVars>>

\* The requester auth.GetUser finds in the context of a request: none when
\* authentication is disabled, else a user with roles.
NoUser == [known |-> FALSE, roles |-> {}]

NoReq == [kind |-> "none", valid |-> TRUE, dbid |-> 0, jobId |-> 0, cluster |-> "",
          startTime |-> 0, stopTime |-> 0, state |-> "", monStatus |-> "",
          tags |-> << >>, tagId |-> 0, user |-> NoUser]

NoJob == [id |-> 0, jobId |-> 0, cluster |-> "", startTime |-> 0, state |-> "",
          duration |-> 0, monStatus |-> "", stats |-> FALSE, tags |-> << >>]

\* The locals of AddTagOrCreate and AddTag: the index k of the tag in the
\* request's list, its tagId, and the job j and the tags AddTag read back; of
\* getJobs: the jobs QueryJobs returned and the index k of the job in them.
NoFrame == [k |-> 0, tagId |-> 0, j |-> NoJob, tags |-> {}, jobs |-> << >>]

\* A response body: the status code and, by kind of response, the database id
\* (201, and the dbid named by the 422 duplicate message) or the job view (200);
\* cnt is the number a delete message carries, jobs the list a job query
\* returns.
Response(code, id, j) == [code |-> code, id |-> id, state |-> j.state,
                          duration |-> j.duration, monStatus |-> j.monStatus,
                          tags |-> j.tags, format |-> "json", cnt |-> 0,
                          jobs |-> << >>]

handleError(statusCode) == Response(statusCode, 0, NoJob)

\* http.Error: the status code with a plain-text body.
httpError(statusCode) == [handleError(statusCode) EXCEPT !.format = "text"]

\* The row of the job table as the handler's *schema.Job.
JobOf(id) == [id |-> id, jobId |-> jobs[id].jobId, cluster |-> jobs[id].cluster,
              startTime |-> jobs[id].startTime, state |-> jobs[id].state,
              duration |-> jobs[id].duration, monStatus |-> jobs[id].monStatus,
              stats |-> jobs[id].stats, tags |-> << >>]

RowOf(q) == [jobId |-> q.jobId, cluster |-> q.cluster, startTime |-> q.startTime,
             state |-> q.state, duration |-> 0, monStatus |-> q.monStatus,
             stats |-> FALSE]

Init ==
    /\ jobs = << >>
    /\ lastId = 0
    /\ mutex = 0
    /\ ongoing = 0
    /\ pc = [r \in Requests |-> "idle"]
    /\ req = [r \in Requests |-> NoReq]
    /\ job = [r \in Requests |-> NoJob]
    /\ resp = [r \in Requests |-> << >>]
    /\ trace = [r \in Requests |-> << >>]
    /\ arch = [r \in Requests |-> "none"]
    /\ tag = << >>
    /\ jobtag = EmptyBag
    /\ archive = << >>
    /\ frame = [r \in Requests |-> NoFrame]

\* user.HasRole(role).
HasRole(user, role) == role \in user.roles

\* Mutant: a request without a requester is turned away, too.
MissingRoleOrNoUser(q) == ~HasRole(q.user, RoleApi)

\* The gate at the head of every job handler: a requester is known and has
\* not the API role.
MissingRole(q) == q.user.known /\ ~HasRole(q.user, RoleApi)

\* Requests are numbered in the order they arrive.
Arrives(r) == pc[r] = "idle" /\ \A s \in Requests : s < r => pc[s] # "idle"

\* ---------------------------------------------------------------- startJob
\* The start requests: a state is named, and tags are carried, by requests of
\* job 123001 only.
StartRequests ==
    {q \in [kind : {"start"}, valid : BOOLEAN, dbid : {0}, jobId : JobIds,
            cluster : Clusters, startTime : StartTimes, stopTime : {0},
            state : StartStates, monStatus : StartMonitoring, tags : TagLists,
            tagId : {0},
            user : {NoUser}] :
        /\ q.state # "" =>
              /\ q.valid /\ q.tags = << >> /\ q.jobId = 123001 /\ q.startTime = 0
              /\ q.monStatus = MonitoringStatusRunningOrArchiving
        /\ q.tags # << >> =>
              /\ q.jobId = 123001 /\ q.startTime = 88
              /\ q.monStatus = MonitoringStatusDisabled}

\* req.State defaults to running.
DefaultState(q) == IF q.state = "" THEN [q EXCEPT !.state = JobStateRunning] ELSE q

\* Decode or SanityChecks fails: 400, before the lock is taken.
StartInvalid(r) ==
    /\ Arrives(r)
    /\ \E q \in StartRequests :
        /\ ~MissingRole(q)
        /\ ~q.valid
        /\ req' = [req EXCEPT ![r] = q]
    /\ resp' = [resp EXCEPT ![r] = Append(@, handleError(StatusBadRequest))]
    /\ pc' = [pc EXCEPT ![r] = "done"]
    /\ UNCHANGED <<jobs, lastId, mutex, ongoing, job, trace, arch, tagVars>>

\* Mutant: the lock is not taken into account.
MutexFreeAlways == TRUE

\* api.RepositoryMutex.Lock() returns only while no other request holds it.
MutexFree == mutex = 0

\* A valid request of the requests Q is decoded and takes the lock.
StartLockOf(r, Q) ==
    /\ Arrives(r)
    /\ MutexFree
    /\ \E q \in Q :
        /\ ~MissingRole(q)
        /\ q.valid
        /\ req' = [req EXCEPT ![r] = DefaultState(q)]
    /\ mutex' = r
    /\ pc' = [pc EXCEPT ![r] = "start_check"]
    /\ UNCHANGED <<jobs, lastId, ongoing, job, resp, trace, arch, tagVars>>

\* Mutant: the result of SanityChecks is not looked at.
StartLockUnchecked(r) ==
    /\ Arrives(r)
    /\ MutexFree
    /\ \E q \in StartRequests :
        /\ ~MissingRole(q)
        /\ req' = [req EXCEPT ![r] = DefaultState(q)]
    /\ mutex' = r
    /\ pc' = [pc EXCEPT ![r] = "start_check"]
    /\ UNCHANGED <<jobs, lastId, ongoing, job, resp, trace, arch, tagVars>>

\* A valid request is decoded and takes the lock.
StartLock(r) == StartLockOf(r, StartRequests)

\* The ids in S in ascending order (the order the job table returns rows in).
RECURSIVE Ascending(_)
Ascending(S) ==
    IF S = {} THEN << >>
    ELSE LET m == CHOOSE x \in S : \A y \in S : x <= y
         IN <<m>> \o Ascending(S \ {m})

\* JobRepository.FindAll(&jobId, &cluster, nil): the rows of that job id and cluster.
FindAll(jobId, cluster) ==
    Ascending({i \in DOMAIN jobs : jobs[i].jobId = jobId /\ jobs[i].cluster = cluster})

\* Mutant: only a row with the very same start time counts as a duplicate.
IsDuplicateExact(startTime, rowStartTime) == startTime = rowStartTime

\* The test of the duplicate loop for one row.
IsDuplicate(startTime, rowStartTime) == (startTime - rowStartTime) < DuplicateWindow

\* The duplicate loop: the id of the first row found a duplicate, 0 when there is none.
RECURSIVE FirstDuplicate(_, _)
FirstDuplicate(rows, startTime) ==
    IF rows = << >> THEN 0
    ELSE IF IsDuplicate(startTime, jobs[Head(rows)].startTime) THEN Head(rows)
    ELSE FirstDuplicate(Tail(rows), startTime)

\* The duplicate query fails: 500, the deferred unlock runs.
StartCheckFails(r) ==
    /\ pc[r] = "start_check"
    /\ resp' = [resp EXCEPT ![r] = Append(@, handleError(StatusInternalServerError))]
    /\ mutex' = 0
    /\ pc' = [pc EXCEPT ![r] = "done"]
    /\ UNCHANGED <<jobs, lastId, ongoing, req, job, trace, arch, tagVars>>

\* The duplicate query returns: 422 naming the first duplicate, or on to the insert.
StartCheck(r) ==
    /\ pc[r] = "start_check"
    /\ LET dup == FirstDuplicate(FindAll(req[r].jobId, req[r].cluster), req[r].startTime)
       IN IF dup # 0
          THEN /\ resp' = [resp EXCEPT ![r] =
                              Append(@, Response(StatusUnprocessableEntity, dup, NoJob))]
               /\ mutex' = 0
               /\ pc' = [pc EXCEPT ![r] = "done"]
          ELSE /\ pc' = [pc EXCEPT ![r] = "start_insert"]
               /\ UNCHANGED <<resp, mutex>>
    /\ UNCHANGED <<jobs, lastId, ongoing, req, job, trace, arch, tagVars>>

\* Mutant: the failed insert returns without the unlock.
StartInsertFailsKeepsLock(r) ==
    /\ pc[r] = "start_insert"
    /\ resp' = [resp EXCEPT ![r] = Append(@, handleError(StatusInternalServerError))]
    /\ pc' = [pc EXCEPT ![r] = "done"]
    /\ UNCHANGED <<jobs, lastId, mutex, ongoing, req, job, trace, arch, tagVars>>

\* JobRepository.Start fails: 500, the deferred unlock runs.
StartInsertFails(r) ==
    /\ pc[r] = "start_insert"
    /\ resp' = [resp EXCEPT ![r] = Append(@, handleError(StatusInternalServerError))]
    /\ mutex' = 0
    /\ pc' = [pc EXCEPT ![r] = "done"]
    /\ UNCHANGED <<jobs, lastId, ongoing, req, job, trace, arch, tagVars>>

\* JobRepository.Start inserts the row and returns its new database id.
StartInsert(r) ==
    /\ pc[r] = "start_insert"
    /\ lastId' = lastId + 1
    /\ jobs' = [i \in (DOMAIN jobs) \cup {lastId + 1} |->
                   IF i = lastId + 1 THEN RowOf(req[r]) ELSE jobs[i]]
    /\ job' = [job EXCEPT ![r] = [NoJob EXCEPT !.id = lastId + 1]]
    /\ trace' = [trace EXCEPT ![r] = Append(@, "insert")]
    /\ pc' = [pc EXCEPT ![r] = "start_unlock"]
    /\ UNCHANGED <<mutex, ongoing, req, resp, arch, tagVars>>

\* unlockOnce.Do(api.RepositoryMutex.Unlock) after the insert; the tag loop
\* is entered when the request carries tags.
StartUnlock(r) ==
    /\ pc[r] = "start_unlock"
    /\ mutex' = 0
    /\ pc' = [pc EXCEPT ![r] = IF req[r].tags = << >> THEN "start_respond" ELSE "tag_id"]
    /\ frame' = [frame EXCEPT ![r] = IF req[r].tags = << >> THEN @ ELSE [NoFrame EXCEPT !.k = 1]]
    /\ UNCHANGED <<jobs, lastId, ongoing, req, job, resp, trace, arch, tag, jobtag, archive>>

\* 201 with the new database id.
StartRespond(r) ==
    /\ pc[r] = "start_respond"
    /\ resp' = [resp EXCEPT ![r] = Append(@, Response(StatusCreated, job[r].id, NoJob))]
    /\ pc' = [pc EXCEPT ![r] = "done"]
    /\ UNCHANGED <<jobs, lastId, mutex, ongoing, req, job, trace, arch, tagVars>>

StartJob(r) ==
    \/ StartInvalid(r)
    \/ StartLock(r)
    \/ StartCheckFails(r)
    \/ StartCheck(r)
    \/ StartInsertFails(r)
    \/ StartInsert(r)
    \/ StartUnlock(r)
    \/ StartRespond(r)

\* ----------------------------------------------------------------- stopJob
\* Stop by database id (stop_job/{id}) or by the natural key (stop_job/).  Both
\* handlers hand the job they found to checkAndHandleStopJob: the bodies vary
\* on the requests by id, the requests by key carry the plain body.
StopByIdRequests ==
    {q \in [kind : {"stopById"}, valid : {TRUE}, dbid : Requests, jobId : {0},
             cluster : {""}, startTime : {0}, stopTime : StopTimes, state : StopStates,
             monStatus : {""}, tags : {<< >>}, tagId : {0},
             user : {NoUser}] :
        <<q.stopTime, q.state>> \in StopBodies}

StopByKeyRequests ==
    {q \in [kind : {"stopByRequest"}, valid : {TRUE}, dbid : {0}, jobId : {123000},
             cluster : Clusters, startTime : StartTimes, stopTime : StopTimes,
             state : StopStates, monStatus : {""}, tags : {<< >>}, tagId : {0},
             user : {NoUser}] :
        <<q.stopTime, q.state>> = <<3600, "">>}

\* JobRepository.Find(jobId, cluster, startTime): the rows of that natural key.
Find(jobId, cluster, startTime) ==
    Ascending({i \in DOMAIN jobs : /\ jobs[i].jobId = jobId
                                  /\ jobs[i].cluster = cluster
                                  /\ jobs[i].startTime = startTime})

\* JobRepository.FindById(id): the row of that database id.
FindById(id) == IF id \in DOMAIN jobs THEN <<id>> ELSE << >>

\* The row a stop request names, as its handler looks it up: << >> when none.
Lookup(q) ==
    IF q.kind = "stopById" THEN FindById(q.dbid)
    ELSE Find(q.jobId, q.cluster, q.startTime)

\* schema.JobState.Valid(): the states the API documents for a job.
Valid(state) ==
    state \in {"running", "completed", "failed", "cancelled", "stopped", "timeout"}

\* int32(a - b) for int64 a, b in [-2^31, 2^31-1]: the difference modulo 2^32,
\* taken in [-2^31, 2^31-1], without leaving that range on the way.
Int32Sub(a, b) ==
    IF b < 0 /\ a > MaxInt32 + b
    THEN ((((a - MaxInt32) - 1) - b) - MaxInt32) - 1
    ELSE IF b > 0 /\ a < ((0 - MaxInt32) - 1) + b
    THEN ((((a + MaxInt32) + 1) - b) + MaxInt32) + 1
    ELSE a - b

\* Mutant: the state of the job is not looked at.
StopSanityFailsTimeOnly(j, q) == j.startTime >= q.stopTime

\* Mutant: a stop time equal to the start time passes.
StopSanityFailsStrict(j, q) == j.startTime > q.stopTime \/ j.state # JobStateRunning

\* The sanity check at the head of checkAndHandleStopJob.
StopSanityFails(j, q) == j.startTime >= q.stopTime \/ j.state # JobStateRunning

\* The check of the requested final state.
StopStateInvalid(q) == q.state # "" /\ ~Valid(q.state)

\* The final state: the requested one, completed when none was requested.
FinalState(q) == IF q.state = "" THEN JobStateCompleted ELSE q.state

\* checkAndHandleStopJob up to the store call, for request q of r and the job j
\* its lookup found: the checks, then duration and state are set on the job.
StopChecks(r, q, j) ==
    IF StopSanityFails(j, q) \/ StopStateInvalid(q)
    THEN /\ resp' = [resp EXCEPT ![r] = Append(@, handleError(StatusBadRequest))]
         /\ pc' = [pc EXCEPT ![r] = "done"]
         /\ job' = [job EXCEPT ![r] = j]
    ELSE /\ job' = [job EXCEPT ![r] = [j EXCEPT !.duration = Int32Sub(q.stopTime, j.startTime),
                                                !.state = FinalState(q)]]
         /\ pc' = [pc EXCEPT ![r] = "stop_persist"]
         /\ UNCHANGED resp

\* stopJobById for a request of the requests Q: the job is fetched by its
\* database id and checked.
StopJobByIdOf(r, Q) ==
    /\ Arrives(r)
    /\ \E q \in Q :
        /\ ~MissingRole(q)
        /\ q.dbid <= lastId + 1
        /\ Lookup(q) # << >>
        /\ req' = [req EXCEPT ![r] = q]
        /\ StopChecks(r, q, JobOf(Head(Lookup(q))))
    /\ UNCHANGED <<jobs, lastId, mutex, ongoing, trace, arch, tagVars>>

StopJobById(r) == StopJobByIdOf(r, StopByIdRequests)

\* stopJobByRequest: the job is fetched by job id, cluster and start time and checked.
StopJobByRequest(r) ==
    /\ Arrives(r)
    /\ \E q \in StopByKeyRequests :
        /\ ~MissingRole(q)
        /\ Lookup(q) # << >>
        /\ req' = [req EXCEPT ![r] = q]
        /\ StopChecks(r, q, JobOf(Head(Lookup(q))))
    /\ UNCHANGED <<jobs, lastId, mutex, ongoing, trace, arch, tagVars>>

\* The lookup for a request of the requests Q finds no row (sql.ErrNoRows): 422.
StopFindFailsOf(r, Q) ==
    /\ Arrives(r)
    /\ \E q \in Q :
        /\ ~MissingRole(q)
        /\ q.dbid <= lastId + 1
        /\ Lookup(q) = << >>
        /\ req' = [req EXCEPT ![r] = q]
    /\ resp' = [resp EXCEPT ![r] = Append(@, handleError(StatusUnprocessableEntity))]
    /\ pc' = [pc EXCEPT ![r] = "done"]
    /\ UNCHANGED <<jobs, lastId, mutex, ongoing, job, trace, arch, tagVars>>

\* The body is not looked at on this path, the requests taking it carry the
\* plain body.
StopFindFails(r) ==
    StopFindFailsOf(r, {q \in StopByIdRequests \cup StopByKeyRequests :
                           <<q.stopTime, q.state>> = <<3600, "">>})

\* JobRepository.Stop(id, duration, state, monitoringStatus): UPDATE ... WHERE id.
Stop(id, duration, state, monitoringStatus) ==
    [i \in DOMAIN jobs |->
        IF i = id THEN [jobs[i] EXCEPT !.duration = duration, !.state = state,
                                       !.monStatus = monitoringStatus]
        ELSE jobs[i]]

\* Mutant: the return after the 500 is missing.
StopPersistFailsNoReturn(r) ==
    /\ pc[r] = "stop_persist"
    /\ resp' = [resp EXCEPT ![r] = Append(@, handleError(StatusInternalServerError))]
    /\ pc' = [pc EXCEPT ![r] = "stop_respond"]
    /\ UNCHANGED <<jobs, lastId, mutex, ongoing, req, job, trace, arch, tagVars>>

\* The update fails: 500, nothing else happens.
StopPersistFails(r) ==
    /\ pc[r] = "stop_persist"
    /\ resp' = [resp EXCEPT ![r] = Append(@, handleError(StatusInternalServerError))]
    /\ pc' = [pc EXCEPT ![r] = "done"]
    /\ UNCHANGED <<jobs, lastId, mutex, ongoing, req, job, trace, arch, tagVars>>

\* Mutant: the 200 is written before the update is made.
StopPersistAfterResponse(r) ==
    /\ pc[r] = "stop_persist"
    /\ resp' = [resp EXCEPT ![r] = Append(@, Response(StatusOK, job[r].id, job[r]))]
    /\ jobs' = Stop(job[r].id, job[r].duration, job[r].state, job[r].monStatus)
    /\ trace' = [trace EXCEPT ![r] = @ \o <<"respond", "persist">>]
    /\ pc' = [pc EXCEPT ![r] =
                 IF job[r].monStatus = MonitoringStatusDisabled THEN "done"
                 ELSE "stop_dispatch"]
    /\ UNCHANGED <<lastId, mutex, ongoing, req, job, arch, tagVars>>

\* The update succeeds.
StopPersist(r) ==
    /\ pc[r] = "stop_persist"
    /\ jobs' = Stop(job[r].id, job[r].duration, job[r].state, job[r].monStatus)
    /\ trace' = [trace EXCEPT ![r] = Append(@, "persist")]
    /\ pc' = [pc EXCEPT ![r] = "stop_respond"]
    /\ UNCHANGED <<lastId, mutex, ongoing, req, job, resp, arch, tagVars>>

\* Mutant: the test for disabled monitoring is missing.
StopRespondAlwaysDispatch(r) ==
    /\ pc[r] = "stop_respond"
    /\ resp' = [resp EXCEPT ![r] = Append(@, Response(StatusOK, job[r].id, job[r]))]
    /\ trace' = [trace EXCEPT ![r] = Append(@, "respond")]
    /\ pc' = [pc EXCEPT ![r] = "stop_dispatch"]
    /\ UNCHANGED <<jobs, lastId, mutex, ongoing, req, job, arch, tagVars>>

\* 200 with the job; the handler returns here when monitoring is disabled.
StopRespond(r) ==
    /\ pc[r] = "stop_respond"
    /\ resp' = [resp EXCEPT ![r] = Append(@, Response(StatusOK, job[r].id, job[r]))]
    /\ trace' = [trace EXCEPT ![r] = Append(@, "respond")]
    /\ pc' = [pc EXCEPT ![r] =
                 IF job[r].monStatus = MonitoringStatusDisabled THEN "done"
                 ELSE "stop_dispatch"]
    /\ UNCHANGED <<jobs, lastId, mutex, ongoing, req, job, arch, tagVars>>

\* Mutant: the goroutine is started without Add(1).
StopDispatchNoAdd(r) ==
    /\ pc[r] = "stop_dispatch"
    /\ arch' = [arch EXCEPT ![r] = "fetch"]
    /\ trace' = [trace EXCEPT ![r] = Append(@, "dispatch")]
    /\ pc' = [pc EXCEPT ![r] = "done"]
    /\ UNCHANGED <<jobs, lastId, mutex, ongoing, req, job, resp, tagVars>>

\* api.OngoingArchivings.Add(1) and the go statement.
StopDispatch(r) ==
    /\ pc[r] = "stop_dispatch"
    /\ ongoing' = ongoing + 1
    /\ arch' = [arch EXCEPT ![r] = "fetch"]
    /\ trace' = [trace EXCEPT ![r] = Append(@, "dispatch")]
    /\ pc' = [pc EXCEPT ![r] = "done"]
    /\ UNCHANGED <<jobs, lastId, mutex, req, job, resp, tagVars>>

StopJob(r) ==
    \/ StopJobById(r)
    \/ StopJobByRequest(r)
    \/ StopFindFails(r)
    \/ StopPersistFails(r)
    \/ StopPersist(r)
    \/ StopRespond(r)
    \/ StopDispatch(r)

\* ---------------------------------------------------------- AddTagOrCreate
\* The handler r runs AddTagOrCreate(job[r].id, type, name) for the tag at
\* frame[r].k of its request; pc[r] is at one of the store calls of the call.

\* The tag of the running call.
CurrentTag(r) == req[r].tags[frame[r].k]

\* JobRepository.TagId(tagType, tagName): the id of the tag row, 0 when the
\* query finds none.
TagId(t) ==
    IF \E i \in DOMAIN tag : tag[i] = t
    THEN CHOOSE i \in DOMAIN tag : tag[i] = t /\ \A k \in DOMAIN tag : tag[k] = t => i <= k
    ELSE 0

\* JobRepository.GetTags(&job): the tags associated with the job.
GetTags(id) == {t \in DOMAIN tag : BagIn(<<id, t>>, jobtag)}

\* Mutant: the tag table takes a second row for a (type, name).
TagUniqueUnchecked(t) == TRUE

\* The tag table's constraint UNIQUE (tag_type, tag_name): a row for t can be
\* inserted.
TagUnique(t) == TagId(t) = 0

\* Mutant: the jobtag table takes a second row for a (job, tag).
JobtagKeyUnchecked(id, t) == TRUE

\* The jobtag table's PRIMARY KEY (job_id, tag_id): a row for (id, t) can be
\* inserted.
JobtagKey(id, t) == ~BagIn(<<id, t>>, jobtag)

\* AddTagOrCreate returned an error: startJob writes the 500 with http.Error
\* and again with handleError, tagJob writes it with http.Error; both return.
TagLoopFails(r) ==
    /\ resp' = [resp EXCEPT ![r] =
                   IF req[r].kind = "start"
                   THEN @ \o <<httpError(StatusInternalServerError),
                               handleError(StatusInternalServerError)>>
                   ELSE Append(@, httpError(StatusInternalServerError))]
    /\ pc' = [pc EXCEPT ![r] = "done"]

\* AddTagOrCreate returned tagId: tagJob appends the tag to job.Tags; the loop
\* goes on to the next tag or, after the last, to the response.
TagLoopNext(r) ==
    /\ job' = [job EXCEPT ![r] =
                  IF req[r].kind = "start" THEN @
                  ELSE [@ EXCEPT !.tags = Append(@, frame[r].tagId)]]
    /\ IF frame[r].k < Len(req[r].tags)
       THEN /\ frame' = [frame EXCEPT ![r] = [NoFrame EXCEPT !.k = frame[r].k + 1]]
            /\ pc' = [pc EXCEPT ![r] = "tag_id"]
       ELSE /\ frame' = [frame EXCEPT ![r] = NoFrame]
            /\ pc' = [pc EXCEPT ![r] =
                         IF req[r].kind = "start" THEN "start_respond" ELSE "tag_respond"]

\* Mutant: the tag is created without being looked up.
AddTagOrCreateAlwaysCreates(r) ==
    /\ pc[r] = "tag_id"
    /\ frame' = [frame EXCEPT ![r].tagId = 0]
    /\ pc' = [pc EXCEPT ![r] = "tag_create"]
    /\ UNCHANGED <<jobs, lastId, mutex, ongoing, req, job, resp, trace, arch,
                   tag, jobtag, archive>>

\* AddTagOrCreate begins with TagId: an existing tag is reused.
AddTagOrCreate(r) ==
    /\ pc[r] = "tag_id"
    /\ frame' = [frame EXCEPT ![r].tagId = TagId(CurrentTag(r))]
    /\ pc' = [pc EXCEPT ![r] = IF TagId(CurrentTag(r)) # 0 THEN "tag_add" ELSE "tag_create"]
    /\ UNCHANGED <<jobs, lastId, mutex, ongoing, req, job, resp, trace, arch,
                   tag, jobtag, archive>>

\* CreateTag fails: the insert is refused by the store, as it is for a (type,
\* name) that has a row by now.
CreateTagFails(r) ==
    /\ pc[r] = "tag_create"
    /\ TagLoopFails(r)
    /\ frame' = [frame EXCEPT ![r] = NoFrame]
    /\ UNCHANGED <<jobs, lastId, mutex, ongoing, req, job, trace, arch,
                   tag, jobtag, archive>>

\* CreateTag inserts the tag row and returns its id.
CreateTag(r) ==
    /\ pc[r] = "tag_create"
    /\ TagUnique(CurrentTag(r))
    /\ tag' = Append(tag, CurrentTag(r))
    /\ frame' = [frame EXCEPT ![r].tagId = Len(tag) + 1]
    /\ pc' = [pc EXCEPT ![r] = "tag_add"]
    /\ UNCHANGED <<jobs, lastId, mutex, ongoing, req, job, resp, trace, arch,
                   jobtag, archive>>

\* Mutant: a failing AddTag takes the job's associations back.
AddTagFailsRollsBack(r) ==
    /\ pc[r] \in {"tag_add", "tag_find", "tag_list", "tag_archive"}
    /\ TagLoopFails(r)
    /\ frame' = [frame EXCEPT ![r] = NoFrame]
    /\ jobtag' = [p \in {q \in DOMAIN jobtag : q[1] # job[r].id} |-> jobtag[p]]
    /\ UNCHANGED <<jobs, lastId, mutex, ongoing, req, job, trace, arch, tag, archive>>

\* Mutant: a failing AddTag deletes the association it inserted.
AddTagFailsUndoesInsert(r) ==
    /\ pc[r] \in {"tag_add", "tag_find", "tag_list", "tag_archive"}
    /\ TagLoopFails(r)
    /\ frame' = [frame EXCEPT ![r] = NoFrame]
    /\ jobtag' = [p \in (DOMAIN jobtag) \ {<<job[r].id, frame[r].tagId>>} |-> jobtag[p]]
    /\ UNCHANGED <<jobs, lastId, mutex, ongoing, req, job, trace, arch, tag, archive>>

\* A store call of AddTag fails: the insert into jobtag (refused, too, for an
\* association that exists), FindById, GetTags or archive.UpdateTags.
AddTagFails(r) ==
    /\ pc[r] \in {"tag_add", "tag_find", "tag_list", "tag_archive"}
    /\ TagLoopFails(r)
    /\ frame' = [frame EXCEPT ![r] = NoFrame]
    /\ UNCHANGED <<jobs, lastId, mutex, ongoing, req, job, trace, arch,
                   tag, jobtag, archive>>

\* AddTag: INSERT INTO jobtag (job_id, tag_id).
AddTag(r) ==
    /\ pc[r] = "tag_add"
    /\ JobtagKey(job[r].id, frame[r].tagId)
    /\ jobtag' = jobtag (+) SetToBag({<<job[r].id, frame[r].tagId>>})
    /\ pc' = [pc EXCEPT ![r] = "tag_find"]
    /\ UNCHANGED <<jobs, lastId, mutex, ongoing, req, job, resp, trace, arch,
                   tag, archive, frame>>

\* AddTag: j, err := r.FindById(job).
AddTagFindById(r) ==
    /\ pc[r] = "tag_find"
    /\ FindById(job[r].id) # << >>
    /\ frame' = [frame EXCEPT ![r].j = JobOf(job[r].id)]
    /\ pc' = [pc EXCEPT ![r] = "tag_list"]
    /\ UNCHANGED <<jobs, lastId, mutex, ongoing, req, job, resp, trace, arch,
                   tag, jobtag, archive>>

\* AddTag: tags, err := r.GetTags(&job).
AddTagGetTags(r) ==
    /\ pc[r] = "tag_list"
    /\ frame' = [frame EXCEPT ![r].tags = GetTags(job[r].id)]
    /\ pc' = [pc EXCEPT ![r] = "tag_archive"]
    /\ UNCHANGED <<jobs, lastId, mutex, ongoing, req, job, resp, trace, arch,
                   tag, jobtag, archive>>

\* archive.UpdateTags(j, tags): the archive copy of a job that has been
\* archived gets the tags; there is none to update for another job.
UpdateTags(j, tags) ==
    IF j.monStatus = MonitoringStatusArchivingSuccessful
    THEN [i \in (DOMAIN archive) \cup {j.id} |-> IF i = j.id THEN tags ELSE archive[i]]
    ELSE archive

\* Mutant: AddTag returns the tags without the archive update.
AddTagUpdateTagsSkipped(r) ==
    /\ pc[r] = "tag_archive"
    /\ TagLoopNext(r)
    /\ UNCHANGED <<jobs, lastId, mutex, ongoing, req, resp, trace, arch, tag, jobtag,
                   archive>>

\* AddTag returns tags, archive.UpdateTags(j, tags); AddTagOrCreate returns tagId.
AddTagUpdateTags(r) ==
    /\ pc[r] = "tag_archive"
    /\ archive' = UpdateTags(frame[r].j, frame[r].tags)
    /\ TagLoopNext(r)
    /\ UNCHANGED <<jobs, lastId, mutex, ongoing, req, resp, trace, arch, tag, jobtag>>

Tagging(r) ==
    \/ AddTagOrCreate(r)
    \/ CreateTagFails(r)
    \/ CreateTag(r)
    \/ AddTagFails(r)
    \/ AddTag(r)
    \/ AddTagFindById(r)
    \/ AddTagGetTags(r)
    \/ AddTagUpdateTags(r)

\* ------------------------------------------------------------------ tagJob
\* tag_job/{id} with a list of tags; a body that does not decode has none.
TagRequests ==
    {q \in [kind : {"tagJob"}, valid : BOOLEAN, dbid : Requests, jobId : {0},
            cluster : {""}, startTime : {0}, stopTime : {0}, state : {""},
            monStatus : {""}, tags : TagJobLists, tagId : {0},
            user : {NoUser}] :
        /\ q.tags = << >> <=> ~q.valid
        /\ q.dbid <= lastId + 1}

\* FindById finds no job: 404 with http.Error.
TagJobNotFound(r) ==
    /\ Arrives(r)
    /\ \E q \in TagRequests :
        /\ ~MissingRole(q)
        /\ FindById(q.dbid) = << >>
        /\ req' = [req EXCEPT ![r] = q]
    /\ resp' = [resp EXCEPT ![r] = Append(@, httpError(StatusNotFound))]
    /\ pc' = [pc EXCEPT ![r] = "done"]
    /\ UNCHANGED <<jobs, lastId, mutex, ongoing, job, trace, arch, tagVars>>

\* The job is fetched by its database id.
TagJob(r) ==
    /\ Arrives(r)
    /\ \E q \in TagRequests :
        /\ ~MissingRole(q)
        /\ FindById(q.dbid) # << >>
        /\ req' = [req EXCEPT ![r] = q]
        /\ job' = [job EXCEPT ![r] = JobOf(q.dbid)]
    /\ pc' = [pc EXCEPT ![r] = "tagjob_tags"]
    /\ UNCHANGED <<jobs, lastId, mutex, ongoing, resp, trace, arch, tagVars>>

\* GetTags of the job fails: 500 with http.Error.
TagJobGetTagsFails(r) ==
    /\ pc[r] = "tagjob_tags"
    /\ resp' = [resp EXCEPT ![r] = Append(@, httpError(StatusInternalServerError))]
    /\ pc' = [pc EXCEPT ![r] = "done"]
    /\ UNCHANGED <<jobs, lastId, mutex, ongoing, req, job, trace, arch, tagVars>>

\* Mutant: job.Tags is left as FindById returned it.
TagJobGetTagsNotRead(r) ==
    /\ pc[r] = "tagjob_tags"
    /\ IF req[r].valid
       THEN /\ frame' = [frame EXCEPT ![r] = [NoFrame EXCEPT !.k = 1]]
            /\ pc' = [pc EXCEPT ![r] = "tag_id"]
            /\ UNCHANGED resp
       ELSE /\ resp' = [resp EXCEPT ![r] = Append(@, httpError(StatusBadRequest))]
            /\ pc' = [pc EXCEPT ![r] = "done"]
            /\ UNCHANGED frame
    /\ UNCHANGED <<jobs, lastId, mutex, ongoing, req, job, trace, arch, tag, jobtag, archive>>

\* job.Tags is read; then the body is decoded (400 with http.Error when that
\* fails) and the tag loop is entered.
TagJobGetTags(r) ==
    /\ pc[r] = "tagjob_tags"
    /\ job' = [job EXCEPT ![r].tags = Ascending(GetTags(job[r].id))]
    /\ IF req[r].valid
       THEN /\ frame' = [frame EXCEPT ![r] = [NoFrame EXCEPT !.k = 1]]
            /\ pc' = [pc EXCEPT ![r] = "tag_id"]
            /\ UNCHANGED resp
       ELSE /\ resp' = [resp EXCEPT ![r] = Append(@, httpError(StatusBadRequest))]
            /\ pc' = [pc EXCEPT ![r] = "done"]
            /\ UNCHANGED frame
    /\ UNCHANGED <<jobs, lastId, mutex, ongoing, req, trace, arch, tag, jobtag, archive>>

\* 200 with the job and its tags.
TagJobRespond(r) ==
    /\ pc[r] = "tag_respond"
    /\ resp' = [resp EXCEPT ![r] = Append(@, Response(StatusOK, job[r].id, job[r]))]
    /\ pc' = [pc EXCEPT ![r] = "done"]
    /\ UNCHANGED <<jobs, lastId, mutex, ongoing, req, job, trace, arch, tagVars>>

TagJobHandler(r) ==
    \/ TagJobNotFound(r)
    \/ TagJob(r)
    \/ TagJobGetTagsFails(r)
    \/ TagJobGetTags(r)
    \/ TagJobRespond(r)

\* --------------------------------------------------------------- RemoveTag
\* RemoveTag(job, tag), as the mutation removeTagsFromJob calls it with a job
\* id and a tag id.  A call that returned an error ends at pc "error".
RemoveRequests ==
    {q \in [kind : {"removeTag"}, valid : {TRUE}, dbid : Requests, jobId : {0},
            cluster : {""}, startTime : {0}, stopTime : {0}, state : {""},
            monStatus : {""}, tags : {<< >>}, tagId : {1, 2},
            user : {NoUser}] :
        q.dbid <= lastId + 1 /\ q.tagId <= Len(tag) + 1}

\* A store call of RemoveTag fails: the delete, FindById, GetTags or
\* archive.UpdateTags.
RemoveTagFails(r) ==
    /\ \/ /\ Arrives(r)
          /\ \E q \in RemoveRequests : req' = [req EXCEPT ![r] = q]
       \/ /\ pc[r] \in {"untag_find", "untag_list", "untag_archive"}
          /\ UNCHANGED req
    /\ pc' = [pc EXCEPT ![r] = "error"]
    /\ frame' = [frame EXCEPT ![r] = NoFrame]
    /\ UNCHANGED <<jobs, lastId, mutex, ongoing, job, resp, trace, arch,
                   tag, jobtag, archive>>

\* Mutant: the delete is not restricted to the tag.
RemoveTagOfJob(r) ==
    /\ Arrives(r)
    /\ \E q \in RemoveRequests :
        /\ req' = [req EXCEPT ![r] = q]
        /\ job' = [job EXCEPT ![r] = [NoJob EXCEPT !.id = q.dbid]]
        /\ frame' = [frame EXCEPT ![r] = [NoFrame EXCEPT !.tagId = q.tagId]]
        /\ jobtag' = [p \in {x \in DOMAIN jobtag : x[1] # q.dbid} |-> jobtag[p]]
    /\ pc' = [pc EXCEPT ![r] = "untag_find"]
    /\ UNCHANGED <<jobs, lastId, mutex, ongoing, resp, trace, arch, tag, archive>>

\* RemoveTag: DELETE FROM jobtag WHERE job_id = job AND tag_id = tag.
RemoveTag(r) ==
    /\ Arrives(r)
    /\ \E q \in RemoveRequests :
        /\ req' = [req EXCEPT ![r] = q]
        /\ job' = [job EXCEPT ![r] = [NoJob EXCEPT !.id = q.dbid]]
        /\ frame' = [frame EXCEPT ![r] = [NoFrame EXCEPT !.tagId = q.tagId]]
        /\ jobtag' = [p \in (DOMAIN jobtag) \ {<<q.dbid, q.tagId>>} |-> jobtag[p]]
    /\ pc' = [pc EXCEPT ![r] = "untag_find"]
    /\ UNCHANGED <<jobs, lastId, mutex, ongoing, resp, trace, arch, tag, archive>>

\* RemoveTag: j, err := r.FindById(job).
RemoveTagFindById(r) ==
    /\ pc[r] = "untag_find"
    /\ FindById(job[r].id) # << >>
    /\ frame' = [frame EXCEPT ![r].j = JobOf(job[r].id)]
    /\ pc' = [pc EXCEPT ![r] = "untag_list"]
    /\ UNCHANGED <<jobs, lastId, mutex, ongoing, req, job, resp, trace, arch,
                   tag, jobtag, archive>>

\* RemoveTag: tags, err := r.GetTags(&job).
RemoveTagGetTags(r) ==
    /\ pc[r] = "untag_list"
    /\ frame' = [frame EXCEPT ![r].tags = GetTags(job[r].id)]
    /\ pc' = [pc EXCEPT ![r] = "untag_archive"]
    /\ UNCHANGED <<jobs, lastId, mutex, ongoing, req, job, resp, trace, arch,
                   tag, jobtag, archive>>

\* RemoveTag returns tags, archive.UpdateTags(j, tags).
RemoveTagUpdateTags(r) ==
    /\ pc[r] = "untag_archive"
    /\ archive' = UpdateTags(frame[r].j, frame[r].tags)
    /\ pc' = [pc EXCEPT ![r] = "done"]
    /\ UNCHANGED <<jobs, lastId, mutex, ongoing, req, job, resp, trace, arch,
                   tag, jobtag, frame>>

Untagging(r) ==
    \/ RemoveTagFails(r)
    \/ RemoveTag(r)
    \/ RemoveTagFindById(r)
    \/ RemoveTagGetTags(r)
    \/ RemoveTagUpdateTags(r)

\* ------------------------------------------------------ the delete handlers
\* DeleteJobApiResponse: "Successfully deleted job <id>" and "Successfully
\* deleted <cnt> jobs".
DeleteJobApiResponse(id, cnt) == [Response(StatusOK, id, NoJob) EXCEPT !.cnt = cnt]

\* The delete requests: by database id, by job id, cluster and start time, and
\* of the jobs started before the time ts (held in startTime).  A request that
\* is not valid has a path parameter that is no integer or a body that does
\* not decode or names no jobId.
DeleteRequests ==
    {q \in [kind : {"deleteById", "deleteByRequest", "deleteBefore"}, valid : BOOLEAN,
            dbid : Requests \cup {0}, jobId : {0, 123000}, cluster : {"", "fritz"},
            startTime : StartTimes, stopTime : {0}, state : {""}, monStatus : {""},
            tags : {<< >>}, tagId : {0},
            user : {NoUser}] :
        /\ (q.dbid # 0) = (q.kind = "deleteById" /\ q.valid)
        /\ q.dbid <= lastId + 1
        /\ (q.jobId # 0) = (q.kind = "deleteByRequest" /\ q.valid)
        /\ (q.cluster # "") = (q.jobId # 0)
        /\ (q.kind = "deleteById" \/ ~q.valid) => q.startTime = 0}

\* JobRepository.DeleteJobById(id): DELETE FROM job WHERE id; a row that is
\* not there is no error.
DeleteJobById(id) == [i \in (DOMAIN jobs) \ {id} |-> jobs[i]]

\* JobRepository.DeleteJobsBefore(startTime): the rows it deletes, which it
\* also counts.
JobsBefore(startTime) == {i \in DOMAIN jobs : jobs[i].startTime < startTime}

\* Mutant: the rows started at startTime are deleted as well.
DeleteJobsBeforeInclusive(startTime) ==
    [i \in {k \in DOMAIN jobs : jobs[k].startTime > startTime} |-> jobs[i]]

DeleteJobsBefore(startTime) == [i \in (DOMAIN jobs) \ JobsBefore(startTime) |-> jobs[i]]

\* The id or ts in the path is no integer, or the body does not decode or
\* has no jobId: 400.
DeleteBadRequest(r) ==
    /\ Arrives(r)
    /\ \E q \in DeleteRequests :
        /\ ~MissingRole(q)
        /\ ~q.valid /\ req' = [req EXCEPT ![r] = q]
    /\ resp' = [resp EXCEPT ![r] = Append(@, handleError(StatusBadRequest))]
    /\ pc' = [pc EXCEPT ![r] = "done"]
    /\ UNCHANGED <<jobs, lastId, mutex, ongoing, job, trace, arch, tagVars>>

\* deleteJobById and deleteJobBefore: the store call fails, 422.
DeleteFails(r) ==
    /\ Arrives(r)
    /\ \E q \in DeleteRequests :
        /\ ~MissingRole(q)
        /\ q.valid /\ q.kind \in {"deleteById", "deleteBefore"}
        /\ req' = [req EXCEPT ![r] = q]
    /\ resp' = [resp EXCEPT ![r] = Append(@, handleError(StatusUnprocessableEntity))]
    /\ pc' = [pc EXCEPT ![r] = "done"]
    /\ UNCHANGED <<jobs, lastId, mutex, ongoing, job, trace, arch, tagVars>>

\* deleteJobById: the row is deleted, 200.
DeleteJobByIdHandler(r) ==
    /\ Arrives(r)
    /\ \E q \in DeleteRequests :
        /\ ~MissingRole(q)
        /\ q.valid /\ q.kind = "deleteById"
        /\ req' = [req EXCEPT ![r] = q]
        /\ jobs' = DeleteJobById(q.dbid)
        /\ resp' = [resp EXCEPT ![r] = Append(@, DeleteJobApiResponse(q.dbid, 0))]
    /\ pc' = [pc EXCEPT ![r] = "done"]
    /\ UNCHANGED <<lastId, mutex, ongoing, job, trace, arch, tagVars>>

\* deleteJobByRequest: Find returns no row, 422.
DeleteFindFails(r) ==
    /\ Arrives(r)
    /\ \E q \in DeleteRequests :
        /\ ~MissingRole(q)
        /\ q.valid /\ q.kind = "deleteByRequest"
        /\ Find(q.jobId, q.cluster, q.startTime) = << >>
        /\ req' = [req EXCEPT ![r] = q]
    /\ resp' = [resp EXCEPT ![r] = Append(@, handleError(StatusUnprocessableEntity))]
    /\ pc' = [pc EXCEPT ![r] = "done"]
    /\ UNCHANGED <<jobs, lastId, mutex, ongoing, job, trace, arch, tagVars>>

\* deleteJobByRequest: the job is fetched by job id, cluster and start time.
DeleteJobByRequest(r) ==
    /\ Arrives(r)
    /\ \E q \in DeleteRequests :
        /\ ~MissingRole(q)
        /\ q.valid /\ q.kind = "deleteByRequest"
        /\ Find(q.jobId, q.cluster, q.startTime) # << >>
        /\ req' = [req EXCEPT ![r] = q]
        /\ job' = [job EXCEPT ![r] = JobOf(Head(Find(q.jobId, q.cluster, q.startTime)))]
    /\ pc' = [pc EXCEPT ![r] = "delete_row"]
    /\ UNCHANGED <<jobs, lastId, mutex, ongoing, resp, trace, arch, tagVars>>

\* deleteJobByRequest: DeleteJobById(job.ID) fails, 422.
DeleteRowFails(r) ==
    /\ pc[r] = "delete_row"
    /\ resp' = [resp EXCEPT ![r] = Append(@, handleError(StatusUnprocessableEntity))]
    /\ pc' = [pc EXCEPT ![r] = "done"]
    /\ UNCHANGED <<jobs, lastId, mutex, ongoing, req, job, trace, arch, tagVars>>

\* deleteJobByRequest: the row is deleted, 200.
DeleteRow(r) ==
    /\ pc[r] = "delete_row"
    /\ jobs' = DeleteJobById(job[r].id)
    /\ resp' = [resp EXCEPT ![r] = Append(@, DeleteJobApiResponse(job[r].id, 0))]
    /\ pc' = [pc EXCEPT ![r] = "done"]
    /\ UNCHANGED <<lastId, mutex, ongoing, req, job, trace, arch, tagVars>>

\* deleteJobBefore: the rows started before ts are deleted, 200 with their
\* number.
DeleteJobBefore(r) ==
    /\ Arrives(r)
    /\ \E q \in DeleteRequests :
        /\ ~MissingRole(q)
        /\ q.valid /\ q.kind = "deleteBefore"
        /\ req' = [req EXCEPT ![r] = q]
        /\ jobs' = DeleteJobsBefore(q.startTime)
        /\ resp' = [resp EXCEPT ![r] =
                       Append(@, DeleteJobApiResponse(0, Cardinality(JobsBefore(q.startTime))))]
    /\ pc' = [pc EXCEPT ![r] = "done"]
    /\ UNCHANGED <<lastId, mutex, ongoing, job, trace, arch, tagVars>>

DeleteJob(r) ==
    \/ DeleteBadRequest(r)
    \/ DeleteFails(r)
    \/ DeleteJobByIdHandler(r)
    \/ DeleteFindFails(r)
    \/ DeleteJobByRequest(r)
    \/ DeleteRowFails(r)
    \/ DeleteRow(r)
    \/ DeleteJobBefore(r)

\* ----------------------------------------------------------------- getJobs
\* The job queries: a state and a cluster to filter by, "" for none.  A
\* request that is not valid has another query parameter that does not parse.
GetJobsRequests ==
    {q \in [kind : {"getJobs"}, valid : BOOLEAN, dbid : {0}, jobId : {0},
            cluster : {"", "fritz"}, startTime : {0}, stopTime : {0},
            state : {"", JobStateCompleted, JobStateRunning, "bogus"},
            monStatus : {""}, tags : {<< >>}, tagId : {0},
            user : {NoUser}] :
        ~q.valid => (q.state = "" /\ q.cluster = "")}

\* The page of a query: page 1 with ItemsPerPage 25.
ItemsPerPage == 25

\* The ids in S ordered by start time, latest first (the id decides among
\* equal start times).
RECURSIVE ByStartTimeDesc(_)
ByStartTimeDesc(S) ==
    IF S = {} THEN << >>
    ELSE LET m == CHOOSE x \in S : \A y \in S :
                    \/ jobs[x].startTime > jobs[y].startTime
                    \/ jobs[x].startTime = jobs[y].startTime /\ x <= y
         IN <<m>> \o ByStartTimeDesc(S \ {m})

\* JobRepository.QueryJobs with the filter of getJobs, its page and order: the
\* jobs of that state and cluster.
QueryJobs(state, cluster) ==
    LET ids == ByStartTimeDesc({i \in DOMAIN jobs :
                   /\ state # "" => jobs[i].state = state
                   /\ cluster # "" => jobs[i].cluster = cluster})
    IN [k \in 1..(IF Len(ids) < ItemsPerPage THEN Len(ids) ELSE ItemsPerPage) |->
            JobOf(ids[k])]

\* A query parameter is refused (a state that is not Valid, a value that does
\* not parse): 400 with http.Error.
GetJobsBadRequest(r) ==
    /\ Arrives(r)
    /\ \E q \in GetJobsRequests :
        /\ ~MissingRole(q)
        /\ ~q.valid \/ (q.state # "" /\ ~Valid(q.state))
        /\ req' = [req EXCEPT ![r] = q]
    /\ resp' = [resp EXCEPT ![r] = Append(@, httpError(StatusBadRequest))]
    /\ pc' = [pc EXCEPT ![r] = "done"]
    /\ UNCHANGED <<jobs, lastId, mutex, ongoing, job, trace, arch, tagVars>>

\* QueryJobs fails: 500 with http.Error.
GetJobsQueryFails(r) ==
    /\ Arrives(r)
    /\ \E q \in GetJobsRequests :
        /\ ~MissingRole(q)
        /\ q.valid /\ (q.state # "" => Valid(q.state))
        /\ req' = [req EXCEPT ![r] = q]
    /\ resp' = [resp EXCEPT ![r] = Append(@, httpError(StatusInternalServerError))]
    /\ pc' = [pc EXCEPT ![r] = "done"]
    /\ UNCHANGED <<jobs, lastId, mutex, ongoing, job, trace, arch, tagVars>>

\* Mutant: the query parameters are not put into the filter.
GetJobsUnfiltered(r) ==
    /\ Arrives(r)
    /\ \E q \in GetJobsRequests :
        /\ ~MissingRole(q)
        /\ q.valid /\ (q.state # "" => Valid(q.state))
        /\ req' = [req EXCEPT ![r] = q]
        /\ frame' = [frame EXCEPT ![r] = [NoFrame EXCEPT !.k = 1, !.jobs = QueryJobs("", "")]]
    /\ pc' = [pc EXCEPT ![r] = "list_tags"]
    /\ UNCHANGED <<jobs, lastId, mutex, ongoing, job, resp, trace, arch, tag, jobtag, archive>>

\* The filter is built from the query parameters and QueryJobs returns the jobs.
GetJobs(r) ==
    /\ Arrives(r)
    /\ \E q \in GetJobsRequests :
        /\ ~MissingRole(q)
        /\ q.valid /\ (q.state # "" => Valid(q.state))
        /\ req' = [req EXCEPT ![r] = q]
        /\ frame' = [frame EXCEPT ![r] =
                        [NoFrame EXCEPT !.k = 1, !.jobs = QueryJobs(q.state, q.cluster)]]
    /\ pc' = [pc EXCEPT ![r] = "list_tags"]
    /\ UNCHANGED <<jobs, lastId, mutex, ongoing, job, resp, trace, arch, tag, jobtag, archive>>

\* GetTags or archive.GetStatistics fails for the job at k: 500 with http.Error.
GetJobsTagsFail(r) ==
    /\ pc[r] = "list_tags"
    /\ frame[r].k <= Len(frame[r].jobs)
    /\ resp' = [resp EXCEPT ![r] = Append(@, httpError(StatusInternalServerError))]
    /\ frame' = [frame EXCEPT ![r] = NoFrame]
    /\ pc' = [pc EXCEPT ![r] = "done"]
    /\ UNCHANGED <<jobs, lastId, mutex, ongoing, req, job, trace, arch, tag, jobtag, archive>>

\* The loop over the jobs: the job at k gets its tags.
GetJobsTags(r) ==
    /\ pc[r] = "list_tags"
    /\ frame[r].k <= Len(frame[r].jobs)
    /\ frame' = [frame EXCEPT ![r].k = @ + 1,
                              ![r].jobs[frame[r].k].tags =
                                  Ascending(GetTags(frame[r].jobs[frame[r].k].id))]
    /\ UNCHANGED <<jobs, lastId, mutex, ongoing, pc, req, job, resp, trace, arch,
                   tag, jobtag, archive>>

\* After the loop: 200 with the jobs.
GetJobsRespond(r) ==
    /\ pc[r] = "list_tags"
    /\ frame[r].k > Len(frame[r].jobs)
    /\ resp' = [resp EXCEPT ![r] =
                   Append(@, [Response(StatusOK, 0, NoJob) EXCEPT !.jobs = frame[r].jobs])]
    /\ frame' = [frame EXCEPT ![r] = NoFrame]
    /\ pc' = [pc EXCEPT ![r] = "done"]
    /\ UNCHANGED <<jobs, lastId, mutex, ongoing, req, job, trace, arch, tag, jobtag, archive>>

GetJobsHandler(r) ==
    \/ GetJobsBadRequest(r)
    \/ GetJobsQueryFails(r)
    \/ GetJobs(r)
    \/ GetJobsTagsFail(r)
    \/ GetJobsTags(r)
    \/ GetJobsRespond(r)

\* ------------------------------------------------- the archiving goroutine
\* JobRepository.UpdateMonitoringStatus(id, status): UPDATE ... WHERE id.
UpdateMonitoringStatus(id, status) ==
    [i \in DOMAIN jobs |-> IF i = id THEN [jobs[i] EXCEPT !.monStatus = status] ELSE jobs[i]]

\* JobRepository.Archive(id, status, statistics): UPDATE ... WHERE id.
Archive(id, status) ==
    [i \in DOMAIN jobs |->
        IF i = id THEN [jobs[i] EXCEPT !.monStatus = status, !.stats = TRUE] ELSE jobs[i]]

\* Mutant: no Done() for a job whose row is gone.
ArchEndsUnlessDeleted(r, outcome) ==
    /\ arch' = [arch EXCEPT ![r] = outcome]
    /\ ongoing' = IF job[r].id \in DOMAIN jobs THEN ongoing - 1 ELSE ongoing

\* Mutant: the deferred Done() is missing.
ArchEndsNoDone(r, outcome) ==
    /\ arch' = [arch EXCEPT ![r] = outcome]
    /\ ongoing' = ongoing

\* The goroutine ends: the deferred OngoingArchivings.Done().
ArchEnds(r, outcome) ==
    /\ arch' = [arch EXCEPT ![r] = outcome]
    /\ ongoing' = ongoing - 1

\* Mutant: the return after the failed FetchMetadata is missing.
ArchFetchFailsNoReturn(r) ==
    /\ arch[r] = "fetch"
    /\ jobs' = UpdateMonitoringStatus(job[r].id, MonitoringStatusArchivingFailed)
    /\ arch' = [arch EXCEPT ![r] = "archive"]
    /\ UNCHANGED <<lastId, mutex, ongoing, pc, req, job, resp, trace, tagVars>>

\* FetchMetadata fails.
ArchFetchFails(r) ==
    /\ arch[r] = "fetch"
    /\ jobs' = UpdateMonitoringStatus(job[r].id, MonitoringStatusArchivingFailed)
    /\ ArchEnds(r, "failed_metadata")
    /\ UNCHANGED <<lastId, mutex, pc, req, job, resp, trace, tagVars>>

\* Mutant: Done() is called as soon as the metadata has been fetched.
ArchFetchEarlyDone(r) ==
    /\ arch[r] = "fetch"
    /\ arch' = [arch EXCEPT ![r] = "archive"]
    /\ ongoing' = ongoing - 1
    /\ UNCHANGED <<jobs, lastId, mutex, pc, req, job, resp, trace, tagVars>>

\* FetchMetadata succeeds.
ArchFetch(r) ==
    /\ arch[r] = "fetch"
    /\ arch' = [arch EXCEPT ![r] = "archive"]
    /\ UNCHANGED <<jobs, lastId, mutex, ongoing, pc, req, job, resp, trace, tagVars>>

\* Mutant: the failure of the archiver is logged only.
ArchArchiveFailsLogOnly(r) ==
    /\ arch[r] = "archive"
    /\ ArchEnds(r, "failed_archiver")
    /\ UNCHANGED <<jobs, lastId, mutex, pc, req, job, resp, trace, tagVars>>

\* Mutant: a failed archiver call is marked and tried again.
ArchArchiveFailsRetries(r) ==
    /\ arch[r] = "archive"
    /\ jobs' = UpdateMonitoringStatus(job[r].id, MonitoringStatusArchivingFailed)
    /\ UNCHANGED <<lastId, mutex, ongoing, pc, req, job, resp, trace, arch, tagVars>>

\* metricdata.ArchiveJob fails.
ArchArchiveFails(r) ==
    /\ arch[r] = "archive"
    /\ jobs' = UpdateMonitoringStatus(job[r].id, MonitoringStatusArchivingFailed)
    /\ ArchEnds(r, "failed_archiver")
    /\ UNCHANGED <<lastId, mutex, pc, req, job, resp, trace, tagVars>>

\* metricdata.ArchiveJob succeeds.
ArchArchive(r) ==
    /\ arch[r] = "archive"
    /\ arch' = [arch EXCEPT ![r] = "final"]
    /\ UNCHANGED <<jobs, lastId, mutex, ongoing, pc, req, job, resp, trace, tagVars>>

\* Mutant: a failed final update marks the job as archiving-failed.
ArchFinalFailsMarksFailed(r) ==
    /\ arch[r] = "final"
    /\ jobs' = UpdateMonitoringStatus(job[r].id, MonitoringStatusArchivingFailed)
    /\ ArchEnds(r, "failed_persist")
    /\ UNCHANGED <<lastId, mutex, pc, req, job, resp, trace, tagVars>>

\* The final update fails: logged only.
ArchFinalFails(r) ==
    /\ arch[r] = "final"
    /\ ArchEnds(r, "failed_persist")
    /\ UNCHANGED <<jobs, lastId, mutex, pc, req, job, resp, trace, tagVars>>

\* Mutant: the final update sets the status without the statistics.
ArchFinalNoStatistics(r) ==
    /\ arch[r] = "final"
    /\ jobs' = UpdateMonitoringStatus(job[r].id, MonitoringStatusArchivingSuccessful)
    /\ ArchEnds(r, "successful")
    /\ UNCHANGED <<lastId, mutex, pc, req, job, resp, trace, tagVars>>

\* The final update succeeds.
ArchFinal(r) ==
    /\ arch[r] = "final"
    /\ jobs' = Archive(job[r].id, MonitoringStatusArchivingSuccessful)
    /\ ArchEnds(r, "successful")
    /\ UNCHANGED <<lastId, mutex, pc, req, job, resp, trace, tagVars>>

Archiving(r) ==
    \/ ArchFetchFails(r)
    \/ ArchFetch(r)
    \/ ArchArchiveFails(r)
    \/ ArchArchive(r)
    \/ ArchFinalFails(r)
    \/ ArchFinal(r)

\* --------------------------------------------------------- specifications
\* All requests against a store that starts empty.
Next == \E r \in Requests : StartJob(r) \/ Tagging(r) \/ StopJob(r) \/ Archiving(r)

Spec == Init /\ [][Next]_vars

\* Stop requests against a store that already holds one job: a row a start
\* request left, still running, or stopped as failed at StopAt and archived
\* since.
StopAt == 3600

StartedJobs ==
    {RowOf(DefaultState(q)) :
        q \in {s \in StartRequests :
                /\ s.valid /\ s.jobId = 123000 /\ s.startTime <= 0
                /\ s.state = "" /\ s.tags = << >>
                /\ (s.startTime < 0 => s.monStatus = MonitoringStatusRunningOrArchiving)}}

StoppedJobs ==
    {[j EXCEPT !.state = "failed",
               !.duration = Int32Sub(StopAt, j.startTime),
               !.monStatus = MonitoringStatusArchivingSuccessful,
               !.stats = TRUE] :
        j \in {k \in StartedJobs :
                k.startTime = 0 /\ k.monStatus = MonitoringStatusRunningOrArchiving}}

InitStop ==
    /\ \E j \in StartedJobs \cup StoppedJobs : jobs = <<j>>
    /\ lastId = 1
    /\ mutex = 0
    /\ ongoing = 0
    /\ pc = [r \in Requests |-> "idle"]
    /\ req = [r \in Requests |-> NoReq]
    /\ job = [r \in Requests |-> NoJob]
    /\ resp = [r \in Requests |-> << >>]
    /\ trace = [r \in Requests |-> << >>]
    /\ arch = [r \in Requests |-> "none"]
    /\ tag = << >>
    /\ jobtag = EmptyBag
    /\ archive = << >>
    /\ frame = [r \in Requests |-> NoFrame]

NextStop == \E r \in Requests : StopJob(r) \/ Archiving(r)

SpecStop == InitStop /\ [][NextStop]_vars

\* The job of the tag requests: running, or stopped and archived.
TaggedJobs ==
    {j \in StartedJobs : j.startTime = 0 /\ j.monStatus = MonitoringStatusRunningOrArchiving}
        \cup StoppedJobs

\* Tag requests and tag removals against a store that holds one job, with no
\* tag yet or with the first tag of TagLists associated with the job (and
\* listed in its archive copy when the job is archived).
InitTag ==
    /\ \E j \in TaggedJobs : \E tagged \in BOOLEAN :
        /\ jobs = <<j>>
        /\ tag = IF tagged THEN <<<<"bench", "a">>>> ELSE << >>
        /\ jobtag = IF tagged THEN SetToBag({<<1, 1>>}) ELSE EmptyBag
        /\ archive = IF tagged /\ j.monStatus = MonitoringStatusArchivingSuccessful
                     THEN <<{1}>> ELSE << >>
    /\ lastId = 1
    /\ mutex = 0
    /\ ongoing = 0
    /\ pc = [r \in Requests |-> "idle"]
    /\ req = [r \in Requests |-> NoReq]
    /\ job = [r \in Requests |-> NoJob]
    /\ resp = [r \in Requests |-> << >>]
    /\ trace = [r \in Requests |-> << >>]
    /\ arch = [r \in Requests |-> "none"]
    /\ frame = [r \in Requests |-> NoFrame]

NextTag == \E r \in Requests : TagJobHandler(r) \/ Tagging(r) \/ Untagging(r)

SpecTag == InitTag /\ [][NextTag]_vars

\* Tag requests and start requests with tags against a store that holds one
\* running job and no tag.
InitTagStart ==
    /\ \E j \in TaggedJobs : j.state = JobStateRunning /\ jobs = <<j>>
    /\ lastId = 1
    /\ mutex = 0
    /\ ongoing = 0
    /\ pc = [r \in Requests |-> "idle"]
    /\ req = [r \in Requests |-> NoReq]
    /\ job = [r \in Requests |-> NoJob]
    /\ resp = [r \in Requests |-> << >>]
    /\ trace = [r \in Requests |-> << >>]
    /\ arch = [r \in Requests |-> "none"]
    /\ tag = << >>
    /\ jobtag = EmptyBag
    /\ archive = << >>
    /\ frame = [r \in Requests |-> NoFrame]

\* The start requests of this specification are those that carry tags.
StartJobTagged(r) == StartJob(r) /\ req'[r].tags # << >>

NextTagStart == \E r \in Requests : StartJobTagged(r) \/ TagJobHandler(r) \/ Tagging(r)

SpecTagStart == InitTagStart /\ [][NextTagStart]_vars

\* Stop and delete requests against a store that holds two jobs of the same
\* job id and cluster: the first started a day before the second, stopped as
\* failed at StopAt and archived, once tagged and untagged again so that its
\* archive copy lists no tag; the second still running.
InitDelete ==
    /\ \E run \in {k \in StartedJobs :
                    k.startTime = 0 /\ k.monStatus = MonitoringStatusRunningOrArchiving} :
       \E old \in {k \in StartedJobs : k.startTime < 0} :
        jobs = <<[old EXCEPT !.state = "failed",
                             !.duration = Int32Sub(StopAt, old.startTime),
                             !.monStatus = MonitoringStatusArchivingSuccessful,
                             !.stats = TRUE],
                 run>>
    /\ lastId = 2
    /\ mutex = 0
    /\ ongoing = 0
    /\ pc = [r \in Requests |-> "idle"]
    /\ req = [r \in Requests |-> NoReq]
    /\ job = [r \in Requests |-> NoJob]
    /\ resp = [r \in Requests |-> << >>]
    /\ trace = [r \in Requests |-> << >>]
    /\ arch = [r \in Requests |-> "none"]
    /\ tag = <<<<"bench", "a">>>>
    /\ jobtag = EmptyBag
    /\ archive = <<{}>>
    /\ frame = [r \in Requests |-> NoFrame]

NextDelete == \E r \in Requests : StopJob(r) \/ Archiving(r) \/ DeleteJob(r)

SpecDelete == InitDelete /\ [][NextDelete]_vars

\* The documented scenario: job 123000 of cluster fritz is started at
\* ScenarioStartTime and, 88 seconds later, started again; the job with
\* database id 1 is stopped an hour after its start as completed; the jobs are
\* queried.  The store is empty at first, or holds the job the first start
\* leaves.
ScenarioStartTime == 1649723812

ScenarioStarts ==
    [kind : {"start"}, valid : {TRUE}, dbid : {0}, jobId : {123000}, cluster : {"fritz"},
     startTime : {ScenarioStartTime, ScenarioStartTime + 88}, stopTime : {0},
     state : {""}, monStatus : StartMonitoring, tags : {<< >>}, tagId : {0},
     user : {NoUser}]

ScenarioStops ==
    [kind : {"stopById"}, valid : {TRUE}, dbid : {1}, jobId : {0}, cluster : {""},
     startTime : {0}, stopTime : {ScenarioStartTime + 3600}, state : {JobStateCompleted},
     monStatus : {""}, tags : {<< >>}, tagId : {0},
     user : {NoUser}]

StartJobOf(r, Q) ==
    \/ StartLockOf(r, Q)
    \/ StartCheckFails(r)
    \/ StartCheck(r)
    \/ StartInsertFails(r)
    \/ StartInsert(r)
    \/ StartUnlock(r)
    \/ StartRespond(r)

StopJobOf(r, Q) ==
    \/ StopJobByIdOf(r, Q)
    \/ StopFindFailsOf(r, Q)
    \/ StopPersistFails(r)
    \/ StopPersist(r)
    \/ StopRespond(r)
    \/ StopDispatch(r)

InitList ==
    /\ \/ jobs = << >> /\ lastId = 0
       \/ /\ \E q \in ScenarioStarts :
              q.startTime = ScenarioStartTime /\ jobs = <<RowOf(DefaultState(q))>>
          /\ lastId = 1
    /\ mutex = 0
    /\ ongoing = 0
    /\ pc = [r \in Requests |-> "idle"]
    /\ req = [r \in Requests |-> NoReq]
    /\ job = [r \in Requests |-> NoJob]
    /\ resp = [r \in Requests |-> << >>]
    /\ trace = [r \in Requests |-> << >>]
    /\ arch = [r \in Requests |-> "none"]
    /\ tag = << >>
    /\ jobtag = EmptyBag
    /\ archive = << >>
    /\ frame = [r \in Requests |-> NoFrame]

NextList ==
    \E r \in Requests :
        \/ StartJobOf(r, ScenarioStarts)
        \/ StopJobOf(r, ScenarioStops)
        \/ Archiving(r)
        \/ GetJobsHandler(r)

SpecList == InitList /\ [][NextList]_vars

\* Stop requests by database id with the plain body against the store of
\* InitStop, under the scheduling of the Go runtime: a handler that has
\* arrived and an archiving goroutine that has been started are goroutines
\* the scheduler keeps running, and every store and archiver call they make
\* returns.  Nothing makes a request arrive.
FairStops == {q \in StopByIdRequests : <<q.stopTime, q.state>> = <<3600, "">>}

NextStopFair == \E r \in Requests : StopJobOf(r, FairStops) \/ Archiving(r)

HandlerRuns(r) ==
    StopPersistFails(r) \/ StopPersist(r) \/ StopRespond(r) \/ StopDispatch(r)

SpecStopFair ==
    /\ InitStop
    /\ [][NextStopFair]_vars
    /\ \A r \in Requests : WF_vars(HandlerRuns(r)) /\ WF_vars(Archiving(r))

\* ----------------------------------------------------------------- shutdown
\* The shutdown of the process waits on OngoingArchivings: Wait() returns at
\* once when the counter is zero, else it blocks until the counter is zero.
\* The shutdown is a process r like a request; it begins at any time.
ShutdownRequest == [NoReq EXCEPT !.kind = "shutdown"]

ShutdownWait(r) ==
    /\ Arrives(r)
    /\ ongoing = 0
    /\ req' = [req EXCEPT ![r] = ShutdownRequest]
    /\ pc' = [pc EXCEPT ![r] = "done"]
    /\ UNCHANGED <<jobs, lastId, mutex, ongoing, job, resp, trace, arch, tagVars>>

ShutdownBlocks(r) ==
    /\ Arrives(r)
    /\ ongoing > 0
    /\ req' = [req EXCEPT ![r] = ShutdownRequest]
    /\ pc' = [pc EXCEPT ![r] = "wait"]
    /\ UNCHANGED <<jobs, lastId, mutex, ongoing, job, resp, trace, arch, tagVars>>

ShutdownWakes(r) ==
    /\ pc[r] = "wait"
    /\ ongoing = 0
    /\ pc' = [pc EXCEPT ![r] = "done"]
    /\ UNCHANGED <<jobs, lastId, mutex, ongoing, req, job, resp, trace, arch, tagVars>>

Shutdown(r) == ShutdownWait(r) \/ ShutdownBlocks(r) \/ ShutdownWakes(r)

\* Stop requests by database id with the plain body, their archiving and a
\* shutdown against the store of InitStop.
NextShutdown ==
    \E r \in Requests : StopJobOf(r, FairStops) \/ Archiving(r) \/ Shutdown(r)

SpecShutdown == InitStop /\ [][NextShutdown]_vars

\* ------------------------------------------------------------ the API role
\* The requesters: none (authentication disabled), a user with the API role,
\* a user without it.
Users == {NoUser, [known |-> TRUE, roles |-> {RoleApi}], [known |-> TRUE, roles |-> {"user"}]}

\* The requests of Q as each requester sends them.
AsUsers(Q) == {[q EXCEPT !.user = u] : q \in Q, u \in Users}

\* The gate turns a request of Q away: 403, the handler returns.
ForbiddenOf(r, Q) ==
    /\ Arrives(r)
    /\ \E q \in Q :
        /\ MissingRole(q)
        /\ req' = [req EXCEPT ![r] = q]
    /\ resp' = [resp EXCEPT ![r] = Append(@, handleError(StatusForbidden))]
    /\ pc' = [pc EXCEPT ![r] = "done"]
    /\ UNCHANGED <<jobs, lastId, mutex, ongoing, job, trace, arch, tagVars>>

\* Requests of every handler by every requester against a store that holds
\* one running job: a start of job 123001, the stops by database id with the
\* plain body, the tag requests with one tag, the well-formed delete requests
\* and the query for all jobs.
AuthStarts ==
    {q \in StartRequests :
        /\ q.valid /\ q.jobId = 123001 /\ q.startTime = 0 /\ q.state = ""
        /\ q.tags = << >> /\ q.monStatus = MonitoringStatusRunningOrArchiving}

AuthTags == {q \in TagRequests : q.tags = <<<<"bench", "a">>>>}

AuthDeletes == {q \in DeleteRequests : q.valid /\ q.startTime <= 0}

AuthQueries == {q \in GetJobsRequests : q.valid /\ q.state = "" /\ q.cluster = ""}

AuthRequests ==
    AsUsers(AuthStarts \cup FairStops \cup AuthTags \cup AuthDeletes \cup AuthQueries)

TagJobOf(r, Q) == (TagJobHandler(r) \/ Tagging(r)) /\ req'[r] \in Q

DeleteJobOf(r, Q) == DeleteJob(r) /\ req'[r] \in Q

GetJobsOf(r, Q) == GetJobsHandler(r) /\ req'[r] \in Q

NextAuth ==
    \E r \in Requests :
        \/ ForbiddenOf(r, AuthRequests)
        \/ StartJobOf(r, AsUsers(AuthStarts))
        \/ StopJobOf(r, AsUsers(FairStops))
        \/ Archiving(r)
        \/ TagJobOf(r, AuthTags)
        \/ DeleteJobOf(r, AuthDeletes)
        \/ GetJobsOf(r, AuthQueries)

SpecAuth == InitTagStart /\ [][NextAuth]_vars

\* ------------------------------------------------------------- properties
Abs(x) == IF x < 0 THEN 0 - x ELSE x

\* d = a - b for a > b, stated without forming a - b (which may leave TLC's range).
IsDifference(d, a, b) == d >= 0 /\ a - d = b

SameKey(i, j) == jobs[i].jobId = jobs[j].jobId /\ jobs[i].cluster = jobs[j].cluster

IsStart(r) == req[r].kind = "start"
IsStop(r) == req[r].kind \in {"stopById", "stopByRequest"}

Codes(r) == {resp[r][k].code : k \in 1..Len(resp[r])}

\* The stored rows a start request conflicts with: same job id and cluster,
\* start times less than DuplicateWindow apart.
Conflicting(r) ==
    {i \in DOMAIN jobs : /\ jobs[i].jobId = req[r].jobId
                         /\ jobs[i].cluster = req[r].cluster
                         /\ Abs(req[r].startTime - jobs[i].startTime) < DuplicateWindow}

\* C1: no two stored rows with the same (job id, cluster) have start times less
\* than 86400 seconds apart, whatever the interleaving of the start requests.
C1_UniqueInWindow ==
    \A i, j \in DOMAIN jobs :
        (i # j /\ SameKey(i, j)) =>
            Abs(jobs[i].startTime - jobs[j].startTime) >= DuplicateWindow

\* Two start requests with the same job id, cluster and start time, handled
\* while the first had not answered yet: one inserted, the other got 422.
C1_Witness ==
    \E r, s \in Requests :
        /\ IsStart(r) /\ IsStart(s) /\ r # s
        /\ req[r].jobId = req[s].jobId /\ req[r].cluster = req[s].cluster
        /\ req[r].startTime = req[s].startTime
        /\ trace[r] = <<"insert">> /\ pc[r] = "start_respond"
        /\ Codes(s) = {StatusUnprocessableEntity}

\* C2: a start request whose duplicate query returns while a stored row of its
\* job id and cluster starts less than 86400 seconds from it is answered 422
\* naming one of these rows, ends there and inserts no row.
C2_DuplicateRejected ==
    [][\A r \in Requests :
        (/\ pc[r] = "start_check"
         /\ pc'[r] # "start_check"
         /\ resp'[r] # <<handleError(StatusInternalServerError)>>
         /\ Conflicting(r) # {})
        => /\ pc'[r] = "done"
           /\ jobs' = jobs
           /\ \E i \in Conflicting(r) :
                resp'[r] = <<Response(StatusUnprocessableEntity, i, NoJob)>>]_vars

\* A request 88 seconds after a stored row of its key was answered 422 with that
\* row's id, and the store holds that row only.
C2_Witness ==
    \E r \in Requests : \E i \in DOMAIN jobs :
        /\ IsStart(r) /\ pc[r] = "done"
        /\ resp[r] = <<Response(StatusUnprocessableEntity, i, NoJob)>>
        /\ jobs[i].jobId = req[r].jobId /\ jobs[i].cluster = req[r].cluster
        /\ req[r].startTime - jobs[i].startTime = 88
        /\ DOMAIN jobs = {i}

\* C3: two valid start requests with the same job id and cluster and start
\* times at least 86400 seconds apart, neither hit by a store failure, are both
\* answered 201, in whichever order they are submitted.
C3_BothOrdersSucceed ==
    \A r, s \in Requests :
        (/\ r # s /\ IsStart(r) /\ IsStart(s)
         /\ req[r].valid /\ req[s].valid
         /\ pc[r] = "done" /\ pc[s] = "done"
         /\ req[r].jobId = req[s].jobId /\ req[r].cluster = req[s].cluster
         /\ Abs(req[r].startTime - req[s].startTime) >= DuplicateWindow
         /\ \A t \in Requests \ {r, s} : ~IsStart(t)
         /\ StatusInternalServerError \notin Codes(r) \cup Codes(s))
        => Codes(r) = {StatusCreated} /\ Codes(s) = {StatusCreated}

\* The step of request r that looks its job up, finds it and runs the checks
\* of checkAndHandleStopJob.
StopChecked(r) ==
    /\ pc[r] = "idle" /\ pc'[r] # "idle"
    /\ req'[r].kind \in {"stopById", "stopByRequest"}
    /\ Lookup(req'[r]) # << >>

\* The row that step finds, as stored when it is taken.
Found(r) == jobs[Head(Lookup(req'[r]))]

\* Request r is answered 400 and ends: nothing is written to the store, nothing
\* is dispatched.
StopRejected(r) ==
    /\ resp'[r] = <<handleError(StatusBadRequest)>>
    /\ pc'[r] = "done"
    /\ trace'[r] = << >>
    /\ UNCHANGED <<jobs, ongoing, arch>>

\* C4: a stop request whose job was found in a state other than running is
\* answered 400; the job row stays as it is and no archiving is dispatched.
C4_NotRunningRejected ==
    [][\A r \in Requests :
        (StopChecked(r) /\ Found(r).state # JobStateRunning) => StopRejected(r)]_vars

\* A stop with a later stop time and a valid final state was answered 400
\* because the job it found was no longer running.
C4_Witness ==
    \E r \in Requests :
        /\ IsStop(r) /\ pc[r] = "done"
        /\ job[r].state = "failed"
        /\ req[r].stopTime > job[r].startTime
        /\ req[r].state = ""
        /\ resp[r] = <<handleError(StatusBadRequest)>>
        /\ jobs[job[r].id].state = "failed"

\* C5: a stop request with stopTime <= the start time of the job it found is
\* answered 400 whatever the job's state; the job row stays as it is and no
\* archiving is dispatched.
C5_StopBeforeStartRejected ==
    [][\A r \in Requests :
        (StopChecked(r) /\ req'[r].stopTime <= Found(r).startTime) => StopRejected(r)]_vars

\* A stop of a running job with stopTime equal to its start time was answered 400.
C5_Witness ==
    \E r \in Requests :
        /\ IsStop(r) /\ pc[r] = "done"
        /\ job[r].state = JobStateRunning
        /\ req[r].stopTime = job[r].startTime
        /\ resp[r] = <<handleError(StatusBadRequest)>>
        /\ jobs[job[r].id].state = JobStateRunning

\* The 200 responses of request r.
Accepted(r) == {k \in 1..Len(resp[r]) : resp[r][k].code = StatusOK}

\* C6: the job returned by an accepted stop has duration stopTime - startTime
\* and the requested final state, completed when none was requested.
C6_DurationAndState ==
    \A r \in Requests : \A k \in Accepted(r) :
        /\ IsDifference(resp[r][k].duration, req[r].stopTime, job[r].startTime)
        /\ resp[r][k].state = (IF req[r].state = "" THEN "completed" ELSE req[r].state)

TerminalStates == {"completed", "failed", "cancelled", "stopped", "timeout"}

\* C7: an accepted stop requested a terminal state or none, and leaves the job
\* in a terminal state; a stop requesting running is not accepted.
C7_TerminalStateOnly ==
    \A r \in Requests : \A k \in Accepted(r) :
        /\ req[r].state \in TerminalStates \cup {""}
        /\ resp[r][k].state \in TerminalStates
        /\ job[r].id \in DOMAIN jobs => jobs[job[r].id].state # JobStateRunning

\* C8: the duration an accepted stop stores is non-negative and is
\* stopTime - startTime.
C8_DurationFits ==
    \A r \in Requests :
        (IsStop(r) /\ trace[r] # << >>) =>
            /\ job[r].duration >= 0
            /\ IsDifference(job[r].duration, req[r].stopTime, job[r].startTime)
            /\ \A i \in DOMAIN jobs : jobs[i].duration >= 0

\* s is a prefix of t.
IsPrefix(s, t) == Len(s) <= Len(t) /\ \A k \in 1..Len(s) : s[k] = t[k]

ArchEnded == {"failed_metadata", "failed_archiver", "failed_persist", "successful"}

\* C9: an accepted stop persists, then answers 200, then dispatches the
\* archiving; the response stays that single 200 however the archiving ends.
C9_PersistRespondDispatch ==
    \A r \in Requests :
        IsStop(r) =>
            /\ IsPrefix(trace[r], <<"persist", "respond", "dispatch">>)
            /\ (Len(trace[r]) >= 2) = (Accepted(r) # {})
            /\ (arch[r] # "none") = (Len(trace[r]) = 3)
            /\ arch[r] # "none" => resp[r] = <<Response(StatusOK, job[r].id, job[r])>>

\* The archiving of an accepted stop failed at the archiver, and the caller's
\* response is the 200 sent before.
C9_Witness ==
    \E r \in Requests :
        /\ arch[r] = "failed_archiver"
        /\ trace[r] = <<"persist", "respond", "dispatch">>
        /\ Codes(r) = {StatusOK}
        /\ jobs[job[r].id].monStatus = MonitoringStatusArchivingFailed

\* The archiving goroutines in flight.
InFlight == {r \in Requests : arch[r] \in {"fetch", "archive", "final"}}

\* C10: a stop whose persist fails is answered 500 only, dispatches no
\* archiving and leaves the counter of outstanding archivings alone.
C10_PersistFailure ==
    /\ \A r \in Requests :
        (IsStop(r) /\ StatusInternalServerError \in Codes(r)) =>
            /\ resp[r] = <<handleError(StatusInternalServerError)>>
            /\ trace[r] = << >>
            /\ arch[r] = "none"
            /\ pc[r] = "done"
    /\ ongoing = Cardinality(InFlight)

\* The persist of a stop that passed the checks failed, with monitoring enabled.
C10_Witness ==
    \E r \in Requests :
        /\ IsStop(r) /\ pc[r] = "done"
        /\ resp[r] = <<handleError(StatusInternalServerError)>>
        /\ job[r].monStatus = MonitoringStatusRunningOrArchiving
        /\ job[r].duration > 0
        /\ jobs[job[r].id].state = JobStateRunning
        /\ ongoing = 0

\* C11: a stop of a job whose monitoring status is disabled persists and
\* answers 200 and ends there: no archiving is dispatched for it, it adds
\* nothing to the counter of outstanding archivings, and the stored status
\* stays disabled.
C11_DisabledNoArchiving ==
    \A r \in Requests :
        (IsStop(r) /\ job[r].monStatus = MonitoringStatusDisabled) =>
            /\ arch[r] = "none"
            /\ IsPrefix(trace[r], <<"persist", "respond">>)
            /\ Len(trace[r]) = 2 =>
                  pc[r] = "done" /\ resp[r] = <<Response(StatusOK, job[r].id, job[r])>>
            /\ pc[r] # "stop_dispatch"
            /\ ongoing = Cardinality(InFlight \ {r})
            /\ job[r].id \in DOMAIN jobs =>
                  jobs[job[r].id].monStatus = MonitoringStatusDisabled

\* A job with monitoring disabled was stopped: 200, the row is completed and
\* still disabled, nothing was dispatched.
C11_Witness ==
    \E r \in Requests :
        /\ IsStop(r) /\ pc[r] = "done"
        /\ job[r].monStatus = MonitoringStatusDisabled
        /\ trace[r] = <<"persist", "respond">>
        /\ Codes(r) = {StatusOK}
        /\ jobs[job[r].id].state = JobStateCompleted
        /\ jobs[job[r].id].monStatus = MonitoringStatusDisabled
        /\ arch[r] = "none" /\ ongoing = 0

\* The store after the monitoring status of row id was set to status, nothing
\* else changed.
Marked(id, status) ==
    /\ DOMAIN jobs' = DOMAIN jobs
    /\ \A i \in DOMAIN jobs :
        jobs'[i] = IF i = id THEN [jobs[i] EXCEPT !.monStatus = status] ELSE jobs[i]

C14_FinalUpdate ==
    [][\A r \in Requests :
        /\ (arch'[r] = "final" /\ arch[r] # "final") => arch[r] = "archive"
        /\ (arch'[r] = "archive" /\ arch[r] # "archive") => arch[r] = "fetch"
        /\ (arch'[r] = "successful" /\ arch[r] # "successful") =>
              /\ arch[r] = "final"
              /\ DOMAIN jobs' = DOMAIN jobs
              /\ \A i \in DOMAIN jobs :
                    jobs'[i] = IF i = job[r].id
                               THEN [jobs[i] EXCEPT
                                        !.monStatus = MonitoringStatusArchivingSuccessful,
                                        !.stats = TRUE]
                               ELSE jobs[i]
        /\ arch[r] = "successful" => arch'[r] = "successful"]_vars

\* An archiving ran through: the row is archiving-successful with statistics.
C14_Witness ==
    \E r \in Requests :
        /\ arch[r] = "successful"
        /\ trace[r] = <<"persist", "respond", "dispatch">>
        /\ jobs[job[r].id].monStatus = MonitoringStatusArchivingSuccessful
        /\ jobs[job[r].id].stats
        /\ jobs[job[r].id].duration = 3600
        /\ ongoing = 0

\* C15: a failing final update changes nothing in the store (the status is not
\* set to archiving-failed), the archiving ends without issuing it again, and
\* the counter of outstanding archivings is decremented.
C15_FinalUpdateFailure ==
    [][\A r \in Requests :
        /\ (arch'[r] = "failed_persist" /\ arch[r] # "failed_persist") =>
              /\ arch[r] = "final"
              /\ jobs' = jobs
              /\ ongoing' = ongoing - 1
        /\ arch[r] = "failed_persist" => arch'[r] = "failed_persist"]_vars

\* The final update of the only archiving failed: the row still has the status
\* the stop persisted, no statistics, and the counter is back to 0.
C15_Witness ==
    \E r \in Requests :
        /\ arch[r] = "failed_persist"
        /\ \A s \in Requests \ {r} : arch[s] = "none"
        /\ jobs[job[r].id].monStatus = MonitoringStatusRunningOrArchiving
        /\ jobs[job[r].id].monStatus = job[r].monStatus
        /\ ~jobs[job[r].id].stats
        /\ ongoing = 0

\* C16: the stored monitoring status of a job never moves backwards: disabled
\* stays disabled, and archiving-successful and archiving-failed are never
\* followed by pending.
C16_StatusMonotonic ==
    [][\A i \in DOMAIN jobs :
        i \in DOMAIN jobs' =>
            /\ jobs[i].monStatus = MonitoringStatusDisabled =>
                  jobs'[i].monStatus = MonitoringStatusDisabled
            /\ jobs[i].monStatus \in {MonitoringStatusArchivingSuccessful,
                                      MonitoringStatusArchivingFailed} =>
                  jobs'[i].monStatus # MonitoringStatusRunningOrArchiving]_vars

\* C17: a start request that fails validation is answered 400 in its first
\* step and takes no other: it neither takes the lock nor queries nor inserts
\* a job row or a tag.
C17_InvalidStartRejected ==
    [][\A r \in Requests :
        /\ (pc[r] = "idle" /\ req'[r].kind = "start" /\ ~req'[r].valid) =>
              /\ resp'[r] = <<handleError(StatusBadRequest)>>
              /\ pc'[r] = "done"
              /\ trace'[r] = << >>
              /\ UNCHANGED <<jobs, lastId, mutex, tag, jobtag, archive>>
        /\ (IsStart(r) /\ ~req[r].valid) =>
              /\ pc'[r] = "done" /\ resp'[r] = resp[r] /\ trace'[r] = << >>
              /\ mutex' # r]_vars

\* An invalid start request carrying tags was answered 400 while another start
\* request held the lock; the store is empty.
C17_Witness ==
    \E r, s \in Requests :
        /\ IsStart(r) /\ ~req[r].valid /\ req[r].tags # << >>
        /\ resp[r] = <<handleError(StatusBadRequest)>>
        /\ pc[s] = "start_check" /\ mutex = s
        /\ DOMAIN jobs = {} /\ jobtag = EmptyBag /\ Len(tag) = 0

\* C18: the row a start request inserts is in state running.
C18_InsertedRunning ==
    [][\A r \in Requests :
        (pc[r] = "start_insert" /\ pc'[r] = "start_unlock") =>
            jobs'[lastId'].state = JobStateRunning]_vars

\* C19: when AddTagOrCreate fails in the tag loop of a start request, the
\* request is answered 500 and nothing more (no 201), and the failing step
\* leaves the store as it is: the job row is there, the tags before the
\* failing one are associated with it.
C19_TagFailureNoRollback ==
    [][\A r \in Requests :
        /\ (/\ IsStart(r)
            /\ pc[r] \in {"tag_create", "tag_add", "tag_find", "tag_list", "tag_archive"}
            /\ pc'[r] = "done") =>
              /\ Len(resp'[r]) > 0
              /\ \A k \in 1..Len(resp'[r]) : resp'[r][k].code = StatusInternalServerError
              /\ UNCHANGED <<jobs, tag, jobtag, archive>>
              /\ job[r].id \in DOMAIN jobs
              /\ \A k \in 1..(frame[r].k - 1) :
                    BagIn(<<job[r].id, TagId(req[r].tags[k])>>, jobtag)
        /\ (IsStart(r) /\ StatusInternalServerError \in Codes(r)) =>
              pc'[r] = "done" /\ resp'[r] = resp[r]]_vars

\* A start request with two tags: the row was inserted, the first tag
\* associated, the second failed; the answer is 500 and row and first
\* association are stored.
C19_Witness ==
    \E r \in Requests :
        /\ IsStart(r) /\ pc[r] = "done" /\ Len(req[r].tags) = 2
        /\ trace[r] = <<"insert">>
        /\ Codes(r) = {StatusInternalServerError}
        /\ job[r].id \in DOMAIN jobs
        /\ jobtag = SetToBag({<<job[r].id, TagId(req[r].tags[1])>>})
        /\ TagId(req[r].tags[1]) # 0

\* C20 as stated: AddTag, past its insert and its reads, invokes the archive update
\* with the job and with the tags read after the insert, which are all tags
\* associated with the job then and include the new one; for a job that has
\* been archived the archive copy's tags become that set.
C20_ArchivedJobTagged ==
    [][\A r \in Requests :
        /\ (pc[r] = "tag_list" /\ pc'[r] = "tag_archive") =>
              frame'[r].tags = GetTags(job[r].id)
        /\ pc[r] = "tag_archive" =>
              /\ frame[r].j.id = job[r].id
              /\ frame[r].tagId \in frame[r].tags
        /\ (/\ pc[r] = "tag_archive" /\ pc'[r] \notin {"tag_archive", "done"}
            /\ job[r].id \in DOMAIN jobs
            /\ jobs[job[r].id].monStatus = MonitoringStatusArchivingSuccessful) =>
              /\ job[r].id \in DOMAIN archive'
              /\ archive'[job[r].id] = frame[r].tags]_vars

\* C20, amended: AddTag inserts the association first; past its reads it
\* invokes the archive update with the job and with the tags read after the
\* insert, which are all tags associated with the job at that read and include
\* the new one unless its association has been removed again by then; for a
\* job that has been archived the archive copy's tags become that set.
C20_ArchivedJobTaggedUnlessRemoved ==
    [][\A r \in Requests :
        /\ (pc[r] = "tag_add" /\ pc'[r] = "tag_find") =>
              BagIn(<<job[r].id, frame[r].tagId>>, jobtag')
        /\ (pc[r] = "tag_list" /\ pc'[r] = "tag_archive") =>
              /\ frame'[r].tags = GetTags(job[r].id)
              /\ BagIn(<<job[r].id, frame[r].tagId>>, jobtag) =>
                    frame[r].tagId \in frame'[r].tags
        /\ pc[r] = "tag_archive" => frame[r].j.id = job[r].id
        /\ (/\ pc[r] = "tag_archive" /\ pc'[r] \notin {"tag_archive", "done"}
            /\ job[r].id \in DOMAIN jobs
            /\ jobs[job[r].id].monStatus = MonitoringStatusArchivingSuccessful) =>
              /\ job[r].id \in DOMAIN archive'
              /\ archive'[job[r].id] = frame[r].tags]_vars

\* A tag request with two tags for the archived job was answered 200: both
\* tags are associated and the archive copy lists both.
C20_Witness ==
    \E r \in Requests :
        /\ req[r].kind = "tagJob" /\ pc[r] = "done" /\ Codes(r) = {StatusOK}
        /\ Len(req[r].tags) = 2
        /\ jobs[job[r].id].monStatus = MonitoringStatusArchivingSuccessful
        /\ GetTags(job[r].id) = {1, 2}
        /\ job[r].id \in DOMAIN archive
        /\ archive[job[r].id] = {1, 2}

C23_RemoveTag ==
    [][\A r \in Requests :
        /\ (pc[r] = "idle" /\ pc'[r] = "untag_find") =>
              LET p == <<req'[r].dbid, req'[r].tagId>> IN
              /\ ~BagIn(p, jobtag')
              /\ \A q \in (DOMAIN jobtag \cup DOMAIN jobtag') \ {p} :
                    CopiesIn(q, jobtag') = CopiesIn(q, jobtag)
              /\ tag' = tag /\ archive' = archive
        /\ (pc[r] \in {"untag_find", "untag_list", "untag_archive"} /\ pc'[r] # pc[r]) =>
              tag' = tag /\ jobtag' = jobtag
        /\ (pc[r] = "untag_list" /\ pc'[r] = "untag_archive") =>
              frame'[r].tags = GetTags(job[r].id)
        /\ (/\ pc[r] = "untag_archive" /\ pc'[r] = "done"
            /\ job[r].id \in DOMAIN jobs
            /\ jobs[job[r].id].monStatus = MonitoringStatusArchivingSuccessful) =>
              /\ job[r].id \in DOMAIN archive'
              /\ archive'[job[r].id] = frame[r].tags]_vars

\* The archived job held two tags and the first was removed: the second is
\* still associated, both tag rows exist and the archive copy lists the
\* second tag only.
C23_Witness ==
    \E r \in Requests :
        /\ req[r].kind = "removeTag" /\ pc[r] = "done" /\ req[r].tagId = 1
        /\ jobs[job[r].id].monStatus = MonitoringStatusArchivingSuccessful
        /\ Len(tag) = 2
        /\ jobtag = SetToBag({<<job[r].id, 2>>})
        /\ job[r].id \in DOMAIN archive
        /\ archive[job[r].id] = {2}

\* ---------------------------------------------------------------------- C24
\* C24: When the row of a job is deleted while its archiving is in flight, the
\* steps of the goroutine that follow leave the job table as it is, no step
\* brings a deleted row back, the goroutine can still take its next step and
\* its ending decrements OngoingArchivings by one; and no step of a delete
\* request changes the archive, the goroutines or the counter.
C24_DeleteRacesArchiving ==
    [][/\ DOMAIN jobs' \subseteq DOMAIN jobs
       /\ \A r \in Requests :
            /\ (r \in InFlight /\ job[r].id \notin DOMAIN jobs) =>
                  /\ ENABLED Archiving(r)
                  /\ arch'[r] # arch[r] =>
                        /\ jobs' = jobs
                        /\ arch'[r] \in ArchEnded => ongoing' = ongoing - 1
                        /\ arch'[r] \notin ArchEnded => ongoing' = ongoing
            /\ (pc'[r] # pc[r]
                /\ req'[r].kind \in {"deleteById", "deleteByRequest", "deleteBefore"}) =>
                  archive' = archive /\ arch' = arch /\ ongoing' = ongoing]_vars

\* A stop was accepted and its goroutine is at the final update; a delete
\* request for the same job was answered 200 meanwhile: the row is gone, the
\* archive copy of the other job is as it was.
C24_Witness ==
    \E r \in Requests : \E s \in Requests :
        /\ IsStop(r) /\ arch[r] = "final" /\ ongoing = 1
        /\ req[s].kind = "deleteById" /\ req[s].dbid = job[r].id
        /\ Codes(s) = {StatusOK}
        /\ job[r].id \notin DOMAIN jobs
        /\ archive = <<{}>>

\* ---------------------------------------------------------------------- C25
\* C25: A delete_job_before request with time ts that is answered 200 removes
\* exactly the rows whose start time is before ts, leaves every other row as
\* it was, and its one body is the message with the number of rows removed.
C25_DeleteJobBefore ==
    [][\A r \in Requests :
        (/\ pc[r] = "idle" /\ req'[r].kind = "deleteBefore"
         /\ resp'[r] # << >> /\ resp'[r][1].code = StatusOK) =>
            /\ DOMAIN jobs' = {i \in DOMAIN jobs : jobs[i].startTime >= req'[r].startTime}
            /\ \A i \in DOMAIN jobs' : jobs'[i] = jobs[i]
            /\ resp'[r] = <<DeleteJobApiResponse(0, Cardinality(DOMAIN jobs \ DOMAIN jobs'))>>]_vars

\* The store held a job started before ts and one started at ts: the first
\* is gone, the second is kept and the message says one job.
C25_Witness ==
    \E r \in Requests :
        /\ req[r].kind = "deleteBefore" /\ req[r].startTime = 0
        /\ resp[r] = <<DeleteJobApiResponse(0, 1)>>
        /\ DOMAIN jobs = {2}
        /\ jobs[2].startTime = 0

\* ---------------------------------------------------------------------- C26
\* The scenario's requests and the row its first start leaves.
IsScenarioStart(q, startTime) ==
    q.kind = "start" /\ q.jobId = 123000 /\ q.cluster = "fritz" /\ q.startTime = startTime

IsScenarioRow(row) ==
    row.jobId = 123000 /\ row.cluster = "fritz" /\ row.startTime = ScenarioStartTime

LastCode(r) == resp'[r][Len(resp'[r])].code

\* C26: On the empty store the start of job 123000 on fritz at
\* ScenarioStartTime passes the duplicate check, its insert makes row 1 and it
\* is answered 201 with id 1; with that row stored, the start 88 seconds later
\* is answered 422 naming row 1 and no row is added; the stop of job 1 an hour
\* after its start as completed is accepted with duration 3600 and answered
\* 200 with state completed and duration 3600; and a job query answered 200
\* returns the jobs of the job table that match its filter, so that the query
\* for cluster fritz and state completed, made when row 1 is the stopped job,
\* returns that job alone with duration 3600.  (500 is the answer when the
\* store call of the step fails.)
C26_Scenario ==
    [][\A r \in Requests :
        /\ (/\ pc[r] = "start_check" /\ pc'[r] # "start_check"
            /\ IsScenarioStart(req[r], ScenarioStartTime) /\ jobs = << >>) =>
              \/ pc'[r] = "start_insert"
              \/ pc'[r] = "done" /\ LastCode(r) = StatusInternalServerError
        /\ (/\ pc[r] = "start_insert" /\ pc'[r] = "start_unlock"
            /\ IsScenarioStart(req[r], ScenarioStartTime) /\ jobs = << >>) =>
              /\ DOMAIN jobs' = {1} /\ IsScenarioRow(jobs'[1])
              /\ jobs'[1].state = JobStateRunning /\ job'[r].id = 1
        /\ (/\ pc[r] = "start_respond" /\ pc'[r] = "done"
            /\ IsScenarioStart(req[r], ScenarioStartTime)) =>
              resp'[r] = <<Response(StatusCreated, job[r].id, NoJob)>>
        /\ (/\ pc[r] = "start_check" /\ pc'[r] # "start_check"
            /\ IsScenarioStart(req[r], ScenarioStartTime + 88)
            /\ 1 \in DOMAIN jobs /\ IsScenarioRow(jobs[1])) =>
              /\ pc'[r] = "done" /\ jobs' = jobs /\ lastId' = lastId
              /\ \/ resp'[r] = <<Response(StatusUnprocessableEntity, 1, NoJob)>>
                 \/ resp'[r] = <<handleError(StatusInternalServerError)>>
        /\ (/\ pc[r] = "idle" /\ req'[r] \in ScenarioStops
            /\ 1 \in DOMAIN jobs /\ IsScenarioRow(jobs[1])
            /\ jobs[1].state = JobStateRunning) =>
              /\ pc'[r] = "stop_persist"
              /\ job'[r].id = 1 /\ job'[r].duration = 3600
              /\ job'[r].state = JobStateCompleted
        /\ (/\ pc[r] = "stop_persist" /\ pc'[r] = "stop_respond"
            /\ req[r] \in ScenarioStops /\ 1 \in DOMAIN jobs) =>
              jobs'[1].state = job[r].state /\ jobs'[1].duration = job[r].duration
        /\ (pc[r] = "stop_respond" /\ pc'[r] # "stop_respond" /\ req[r] \in ScenarioStops) =>
              /\ Len(resp'[r]) = 1 /\ resp'[r][1].code = StatusOK
              /\ resp'[r][1].id = job[r].id
              /\ resp'[r][1].state = job[r].state
              /\ resp'[r][1].duration = job[r].duration
        /\ (pc[r] = "idle" /\ pc'[r] = "list_tags") =>
              /\ {frame'[r].jobs[k].id : k \in DOMAIN frame'[r].jobs} =
                    {i \in DOMAIN jobs :
                        /\ req'[r].state # "" => jobs[i].state = req'[r].state
                        /\ req'[r].cluster # "" => jobs[i].cluster = req'[r].cluster}
              /\ Len(frame'[r].jobs) <= Cardinality(DOMAIN jobs)
              /\ \A k \in DOMAIN frame'[r].jobs :
                    /\ frame'[r].jobs[k].state = jobs[frame'[r].jobs[k].id].state
                    /\ frame'[r].jobs[k].duration = jobs[frame'[r].jobs[k].id].duration
        /\ (pc[r] = "list_tags" /\ pc'[r] = "done" /\ LastCode(r) = StatusOK) =>
              /\ Len(resp'[r]) = 1
              /\ Len(resp'[r][1].jobs) = Len(frame[r].jobs)
              /\ \A k \in DOMAIN frame[r].jobs :
                    /\ resp'[r][1].jobs[k].id = frame[r].jobs[k].id
                    /\ resp'[r][1].jobs[k].state = frame[r].jobs[k].state
                    /\ resp'[r][1].jobs[k].duration = frame[r].jobs[k].duration]_vars

\* The job the first start left was stopped as completed an hour after its
\* start and answered 200 with duration 3600; the query for cluster fritz and
\* state completed was answered with that job alone, duration 3600.
C26_Witness ==
    \E r \in Requests : \E s \in Requests :
        /\ req[r] \in ScenarioStops /\ Len(resp[r]) = 1
        /\ resp[r][1].code = StatusOK /\ resp[r][1].duration = 3600
        /\ resp[r][1].state = JobStateCompleted
        /\ req[s].kind = "getJobs" /\ req[s].cluster = "fritz"
        /\ req[s].state = JobStateCompleted
        /\ pc[s] = "done" /\ Len(resp[s]) = 1 /\ resp[s][1].code = StatusOK
        /\ Len(resp[s][1].jobs) = 1
        /\ resp[s][1].jobs[1].id = 1
        /\ resp[s][1].jobs[1].duration = 3600
        /\ resp[s][1].jobs[1].state = JobStateCompleted
        /\ IsScenarioRow(jobs[1])

\* ---------------------------------------------------------------------- C27
\* C27: Every response with an error status is the only body written for its
\* request and is the JSON object handleError writes.
C27_ErrorBodies ==
    \A r \in Requests : \A k \in DOMAIN resp[r] :
        resp[r][k].code >= StatusBadRequest =>
            resp[r][k].format = "json" /\ Len(resp[r]) = 1

\* ---------------------------------------------------------------------- C28
\* The handler positions of a tag request after it has read job.Tags.
TagJobReadDone ==
    {"tag_id", "tag_create", "tag_add", "tag_find", "tag_list", "tag_archive", "tag_respond"}

\* The tags the handler holds for the job: job.Tags and, between the insert of
\* AddTag and the append, the tag just associated.
TagsHeld(r) ==
    {job[r].tags[k] : k \in DOMAIN job[r].tags} \cup
        (IF pc[r] \in {"tag_find", "tag_list", "tag_archive"} THEN {frame[r].tagId} ELSE {})

\* The tags the handler holds are the tags associated with the job, and it
\* holds each once.
TagsCurrent(r) ==
    /\ TagsHeld(r) = GetTags(job[r].id)
    /\ Cardinality({job[r].tags[k] : k \in DOMAIN job[r].tags}) = Len(job[r].tags)
    /\ pc[r] \in {"tag_find", "tag_list", "tag_archive"} =>
          frame[r].tagId \notin {job[r].tags[k] : k \in DOMAIN job[r].tags}

\* C28 as stated: the 200 of a tag request carries the job with a tag list
\* that is the set of tags associated with the job then, each once; the 404
\* for a job that does not exist changes nothing.
C28_ResponseIsStoredSet ==
    [][\A r \in Requests :
        /\ (pc[r] = "tag_respond" /\ pc'[r] = "done") =>
              /\ resp'[r] = <<Response(StatusOK, job[r].id, job[r])>>
              /\ TagsCurrent(r)
        /\ (/\ pc[r] = "idle" /\ req'[r].kind = "tagJob"
            /\ req'[r].dbid \notin DOMAIN jobs) =>
              /\ resp'[r] = <<httpError(StatusNotFound)>> /\ pc'[r] = "done"
              /\ UNCHANGED <<jobs, tag, jobtag, archive>>]_vars

\* C28, amended: the tag list a tag request holds is the set of tags
\* associated with the job, each once, from its reading of job.Tags on through
\* every step in which no other request adds or removes a tag of the job; the
\* 200 carries the job with that list; the 404 for a job that does not exist
\* changes nothing.
C28_ResponseUnlessInterfered ==
    [][\A r \in Requests :
        /\ (pc[r] = "tagjob_tags" /\ pc'[r] = "tag_id") => TagsCurrent(r)'
        /\ (/\ req[r].kind = "tagJob" /\ pc[r] \in TagJobReadDone
            /\ pc'[r] \in TagJobReadDone
            /\ TagsCurrent(r)
            /\ ~(pc'[r] = pc[r] /\ jobtag' # jobtag)) => TagsCurrent(r)'
        /\ (pc[r] = "tag_respond" /\ pc'[r] = "done") =>
              resp'[r] = <<Response(StatusOK, job[r].id, job[r])>>
        /\ (/\ pc[r] = "idle" /\ req'[r].kind = "tagJob"
            /\ req'[r].dbid \notin DOMAIN jobs) =>
              /\ resp'[r] = <<httpError(StatusNotFound)>> /\ pc'[r] = "done"
              /\ UNCHANGED <<jobs, tag, jobtag, archive>>]_vars

\* The job had the first tag; a tag request naming the second was answered
\* 200 with both tags, which are the tags associated with the job.
C28_Witness ==
    \E r \in Requests :
        /\ req[r].kind = "tagJob" /\ pc[r] = "done"
        /\ req[r].tags = <<<<"bench", "b">>>>
        /\ Len(resp[r]) = 1 /\ resp[r][1].code = StatusOK
        /\ resp[r][1].tags = <<1, 2>>
        /\ GetTags(job[r].id) = {1, 2}

\* ---------------------------------------------------------------------- C29
\* The positions of startJob between Lock() and the release.
StartLocked == {"start_check", "start_insert", "start_unlock"}

C30_CounterIsInFlight ==
    [][/\ ongoing >= 0 /\ ongoing = Cardinality(InFlight)
       /\ ongoing' >= 0 /\ ongoing' = Cardinality(InFlight')
       /\ \A r \in Requests :
            /\ (arch[r] = "none" /\ arch'[r] # "none") =>
                  arch'[r] = "fetch" /\ ongoing' = ongoing + 1
            /\ (r \in InFlight /\ arch'[r] \in ArchEnded) => ongoing' = ongoing - 1
            /\ (r \in InFlight /\ arch'[r] # arch[r] /\ arch'[r] \notin ArchEnded) =>
                  r \in InFlight' /\ ongoing' = ongoing
            /\ arch[r] \in ArchEnded => arch'[r] = arch[r]
       /\ ongoing' # ongoing => arch' # arch]_vars

\* Two goroutines were started; one has ended at the failed final update, the
\* other is still in flight and the counter is one.
C30_Witness ==
    \E r \in Requests : \E s \in Requests :
        /\ arch[r] = "failed_persist" /\ arch[s] = "archive"
        /\ ongoing = 1

\* The positions a started archiving goroutine moves through, in order, and
\* the outcome each may end in.
ArchSuccessors(a) ==
    CASE a = "none" -> {"fetch"}
      [] a = "fetch" -> {"archive", "failed_metadata"}
      [] a = "archive" -> {"final", "failed_archiver"}
      [] a = "final" -> {"successful", "failed_persist"}
      [] OTHER -> {}

\* C31: under fair scheduling every archiving goroutine that was dispatched
\* eventually ends in one of its four outcomes and stays in it; it only moves
\* forward through fetch, archive and final update (nothing takes it back or
\* cancels it); and the counter of outstanding archivings is eventually zero
\* for good (the requests are finitely many, so from some point on no stop
\* arrives).
C31_ArchivingEnds ==
    /\ \A r \in Requests : (arch[r] = "fetch") ~> (arch[r] \in ArchEnded)
    /\ [][\A r \in Requests :
            arch'[r] # arch[r] => arch'[r] \in ArchSuccessors(arch[r])]_vars
    /\ <>[](ongoing = 0)

\* Every request has been handled, the archiving of a stopped job has ended
\* successfully and no archiving is outstanding.
C31_Witness ==
    /\ \A r \in Requests : pc[r] = "done" /\ arch[r] \in ArchEnded \cup {"none"}
    /\ \E r \in Requests : arch[r] = "successful"
    /\ ongoing = 0

\* C32: there is no retry.  A stop request starts its archiving goroutine at
\* most once; every step of the goroutine leaves the call it was at for the
\* next call or for an outcome, so the metadata fetch and the archiver are
\* each invoked at most once per accepted stop; and a goroutine that has ended
\* (in archiving-failed or otherwise) has no step left.
C32_NoRetry ==
    [][\A r \in Requests :
        /\ pc[r] = "stop_dispatch" => arch[r] = "none"
        /\ (arch[r] = "none" /\ arch'[r] # "none") =>
              pc[r] = "stop_dispatch" /\ pc'[r] = "done" /\ arch'[r] = "fetch"
        /\ Archiving(r) =>
              arch'[r] # arch[r] /\ arch'[r] \in ArchSuccessors(arch[r])
        /\ arch[r] \in ArchEnded =>
              ~ENABLED Archiving(r) /\ arch'[r] = arch[r]]_vars

\* The archiver failed for a stopped job: the job is marked archiving-failed
\* and its goroutine has ended.
C32_Witness ==
    \E r \in Requests :
        /\ arch[r] = "failed_archiver"
        /\ job[r].id \in DOMAIN jobs
        /\ jobs[job[r].id].monStatus = MonitoringStatusArchivingFailed
        /\ \A s \in Requests : pc[s] = "done" /\ arch[s] \in ArchEnded \cup {"none"}

\* The positions of a running AddTagOrCreate call past its lookup.
InAddTagOrCreate == {"tag_create", "tag_add", "tag_find", "tag_list", "tag_archive"}

StopsOf(i) == {r \in Requests : IsStop(r) /\ job[r].id = i}

\* C34: of the stop requests for one job, by database id or by natural key,
\* at most one is answered 200 and at most one dispatches an archiving
\* goroutine, however they interleave.
C34_SingleStop ==
    \A i \in 1..lastId :
        /\ Cardinality({r \in StopsOf(i) : StatusOK \in Codes(r)}) <= 1
        /\ Cardinality({r \in StopsOf(i) : arch[r] # "none"}) <= 1

\* C35: a stop request is answered 200 only while the job store holds the
\* job's row with the state and the duration the response carries, whatever
\* deletes run alongside the stop.
C35_StoredWhenAnswered ==
    [][\A r \in Requests :
        (IsStop(r) /\ Len(resp'[r]) > Len(resp[r])
            /\ resp'[r][Len(resp'[r])].code = StatusOK) =>
            /\ job[r].id \in DOMAIN jobs
            /\ jobs[job[r].id].state = resp'[r][Len(resp'[r])].state
            /\ jobs[job[r].id].duration = resp'[r][Len(resp'[r])].duration]_vars

\* The stop request r has persisted the stop of a job with monitoring enabled.
PersistedEnabled(r) ==
    /\ IsStop(r)
    /\ \E k \in DOMAIN trace[r] : trace[r][k] = "persist"
    /\ job[r].monStatus # MonitoringStatusDisabled

\* C36 as stated: from the persist of the stop of a job with monitoring
\* enabled until its archiving goroutine has ended the counter is above zero,
\* and no shutdown that begins its wait after the persist gets through it
\* before the goroutine has ended.
C36_CountedFromPersist ==
    [][/\ \A r \in Requests :
            (PersistedEnabled(r)' /\ arch'[r] \notin ArchEnded) => ongoing' > 0
       /\ \A s \in Requests :
            (pc[s] = "idle" /\ pc'[s] = "done" /\ req'[s].kind = "shutdown") =>
                \A r \in Requests : PersistedEnabled(r) => arch[r] \in ArchEnded]_vars

\* C36, amended: from the dispatch of the archiving goroutine of a job (the
\* Add(1) before the go statement) until the goroutine has ended the counter
\* is above zero, and no shutdown gets through its wait while a dispatched
\* goroutine has not ended.
C36_CountedFromDispatch ==
    [][/\ InFlight' # {} => ongoing' > 0
       /\ \A s \in Requests :
            (req'[s].kind = "shutdown" /\ pc[s] # "done" /\ pc'[s] = "done") =>
                InFlight = {}]_vars

\* A shutdown began while the archiving of a stopped job was at its final
\* update and is blocked in its wait.
C36_Witness ==
    \E s \in Requests : \E r \in Requests :
        /\ req[s].kind = "shutdown" /\ pc[s] = "wait"
        /\ PersistedEnabled(r) /\ arch[r] = "final"
        /\ ongoing > 0

\* C37: AddTag does not roll back.  When FindById, GetTags or the archive
\* update fails after the insert, the call returns an error (id 0 from
\* AddTagOrCreate, answered 500) and the failing step leaves the tag and
\* jobtag tables as they are: the association inserted by the call and the
\* tag of the call, newly created or not, stay stored; no later step of a
\* start or tag request takes a tag or an association away.
C37_NoRollback ==
    [][/\ \A r \in Requests :
            (pc[r] \in {"tag_find", "tag_list", "tag_archive"} /\ pc'[r] = "done") =>
                /\ frame'[r].tagId = 0
                /\ Len(resp'[r]) > Len(resp[r])
                /\ resp'[r][Len(resp'[r])].code = StatusInternalServerError
                /\ tag' = tag /\ jobtag' = jobtag
                /\ BagIn(<<job[r].id, frame[r].tagId>>, jobtag')
                /\ frame[r].tagId \in DOMAIN tag'
                /\ tag'[frame[r].tagId] = CurrentTag(r)
       /\ IsPrefix(tag, tag')
       /\ \A p \in DOMAIN jobtag : BagIn(p, jobtag')]_vars

\* The first request created a tag and associated it with its job, then a
\* later call of AddTag failed and the request was answered 500: the tag and
\* the association are stored.
C37_Witness ==
    \E r \in Requests :
        /\ pc[r] = "done"
        /\ \A s \in Requests : s # r => pc[s] = "idle"
        /\ req[r].tags # << >>
        /\ StatusInternalServerError \in Codes(r)
        /\ TagId(req[r].tags[1]) # 0
        /\ BagIn(<<job[r].id, TagId(req[r].tags[1])>>, jobtag)
        /\ Len(req[r].tags) = 1

\* The requester of q is authenticated and lacks the API role.
LacksApiRole(q) == q.user.known /\ RoleApi \notin q.user.roles

\* C38: a start, stop, delete, tag or list request of an authenticated
\* requester without the API role is answered 403 as its handler's only step:
\* that step takes no lock, changes no job, tag, association or archive copy,
\* leaves the handler's job and tag locals unset and dispatches no archiving,
\* and the request never takes another step; a request of any other
\* requester, one without identity included, is never answered 403 and is
\* handled by its handler.
C38_RoleGate ==
    [][\A r \in Requests :
        /\ (pc[r] = "idle" /\ pc'[r] # "idle") =>
              IF LacksApiRole(req'[r])
              THEN /\ resp'[r] = <<handleError(StatusForbidden)>>
                   /\ pc'[r] = "done"
                   /\ job'[r] = NoJob /\ frame'[r] = NoFrame
                   /\ trace'[r] = << >> /\ arch'[r] = "none"
                   /\ UNCHANGED <<jobs, lastId, mutex, ongoing, tag, jobtag, archive>>
              ELSE /\ \A k \in DOMAIN resp'[r] : resp'[r][k].code # StatusForbidden
                   /\ req'[r].kind \in {"start", "stopById", "tagJob", "deleteById",
                                        "deleteByRequest", "deleteBefore", "getJobs"}
        /\ LacksApiRole(req[r]) =>
              /\ pc[r] = "done"
              /\ UNCHANGED <<pc[r], req[r], resp[r], job[r], frame[r], trace[r], arch[r]>>
              /\ mutex # r
        /\ (pc[r] # "idle" /\ ~LacksApiRole(req[r])) =>
              \A k \in DOMAIN resp'[r] : resp'[r][k].code # StatusForbidden]_vars

\* A start request of a requester without the API role was answered 403 and
\* the same start request without a requester was answered 201: the store
\* holds one job more than at first, the one the second request started.
C38_Witness ==
    \E r \in Requests : \E s \in Requests :
        /\ req[r].kind = "start" /\ LacksApiRole(req[r])
        /\ Codes(r) = {StatusForbidden}
        /\ req[s] = [req[r] EXCEPT !.user = NoUser, !.state = JobStateRunning]
        /\ Codes(s) = {StatusCreated}
        /\ lastId = 2 /\ job[s].id = 2 /\ 2 \in DOMAIN jobs

====
